---- MODULE Spec2Model ----
(***************************************************************************)
(* The IMAP provider of lantz-tmail (src/src/providers/imap.ts) and its    *)
(* session codec (src/src/utils/crypto.ts).                                *)
(*                                                                         *)
(* Spec      the connection pool shared by two concurrent getEmails /      *)
(*           getEmailContent requests, the connections' error/close        *)
(*           listeners and the pool cleanup, at one instant of the clock.  *)
(* SpecTimed the same pool used by one request at a time while the clock   *)
(*           advances.                                                     *)
(* SpecFolder two concurrent requests of one account with two folders.     *)
(* SpecList  fetchRecentMessages applied to bounded fetch results.         *)
(* SpecCodec the session codec applied to bounded sessions.                *)
(* SpecToken createEmail, getEmails and getEmailContent called by one      *)
(*           caller with issued, altered and foreign access tokens.        *)
(* SpecCreate createEmail called with valid and with flawed                *)
(*           configurations.                                               *)
(* SpecMine  createEmail with isMine and getEmails with its token.         *)
(* SpecMime  findBodyPart and findAttachments applied to bounded           *)
(*           structures.                                                   *)
(* SpecContent a folder is listed and a listed id is given to              *)
(*           fetchMessageContent.                                          *)
(* SpecStats the request counters under interleaved calls.                 *)
(*                                                                         *)
(* Strings whose characters matter (addresses, JSON, tokens) are sequences *)
(* of code points; strings that are only compared as a whole are TLA+      *)
(* strings.  A request is one async call: each action is the code between  *)
(* two awaits that suspend on network I/O.                                 *)
(***************************************************************************)
EXTENDS Integers, Sequences, FiniteSets, TLC

VARIABLES
  connectionPool, \* Map key -> [client, lastUsed]              (imap.ts:44)
  conn,           \* the ImapFlow clients, by handle number
  created,        \* how many clients have been created
  req,            \* the position and locals of each in-flight request
  now,            \* Date.now()
  ticks,          \* how often the clock has advanced
  listIn, listOut,   \* SpecList: the input and the result of fetchRecentMessages;
                     \* SpecMime, SpecContent: the message and what was found
                     \* in it; SpecStats: the calls in flight and the counters
  codecIn, codecOut  \* SpecCodec: the session and what the codec made of it;
                     \* SpecToken: the environment and the caller's tokens

vars == <<connectionPool, conn, created, req, now, ticks, listIn, listOut, codecIn, codecOut>>
poolVars == <<connectionPool, conn, created, req, now, ticks>>
listVars == <<listIn, listOut>>
codecVars == <<codecIn, codecOut>>

----------------------------------------------------------------------------
(* Bounds *)

MaxHandles == 2   \* ImapFlow clients created in one behaviour
MaxTicks == 2     \* clock advances in one behaviour
MaxFetched == 2   \* messages the server returns to one search

Reqs == {1, 2}    \* concurrent requests

----------------------------------------------------------------------------
(* Time *)

CONNECTION_MAX_IDLE == 10 * 60 * 1000
DAY_MS == 24 * 60 * 60 * 1000

\* The clock starts one day after the epoch, so that now - 24h is not negative.
StartTime == DAY_MS
TickSteps == {1, CONNECTION_MAX_IDLE}

----------------------------------------------------------------------------
(* Strings as code points *)

\* String.prototype.toLowerCase on the characters used here (ASCII).
LowerChar(c) == IF c >= 65 /\ c <= 90 THEN c + 32 ELSE c
toLowerCase(s) == [i \in 1..Len(s) |-> LowerChar(s[i])]

\* "a@x.c", "A@x.c", "b@x.c", "s.a@x.c" (contains a@x.c), "a@x.cc" (extends it)
Addr_a   == <<97, 64, 120, 46, 99>>
Addr_A   == <<65, 64, 120, 46, 99>>
Addr_b   == <<98, 64, 120, 46, 99>>
Addr_sa  == <<115, 46, 97, 64, 120, 46, 99>>
Addr_acc == <<97, 64, 120, 46, 99, 99>>
\* addr.address may be missing on an envelope address: `undefined`, which is
\* no string and equals none
NoAddress == <<-1>>

----------------------------------------------------------------------------
(* ImapConfig (types/email.ts:74-81).  imap_port 0 stands for an absent    *)
(* port: both are falsy in `config.imap_port || 993`.                      *)

Configs == <<
  [imap_server |-> "imap.x", imap_port |-> 993, imap_user |-> "u1@x.c",
   imap_pass |-> "p1", imap_dir |-> "INBOX"],
  [imap_server |-> "imap.x", imap_port |-> 0, imap_user |-> "u1@x.c",
   imap_pass |-> "p2", imap_dir |-> "INBOX"],
  [imap_server |-> "imap.x", imap_port |-> 993, imap_user |-> "u2@x.c",
   imap_pass |-> "p1", imap_dir |-> "INBOX"],
  [imap_server |-> "imap.x", imap_port |-> 993, imap_user |-> "u1@x.c",
   imap_pass |-> "p1", imap_dir |-> "Sent"] >>
CfgIds == DOMAIN Configs

\* The mail server: the one password each account accepts.
ServerPassword(user) == "p1"
LoginAccepted(cfg) == cfg.imap_pass = ServerPassword(cfg.imap_user)

DefaultPort == 993
\* `${config.imap_server}:${config.imap_port || 993}:${config.imap_user}`
getConnectionKey(cfg) ==
  <<cfg.imap_server, IF cfg.imap_port = 0 THEN DefaultPort ELSE cfg.imap_port,
    cfg.imap_user>>

KeyOf(c) == getConnectionKey(Configs[c])

----------------------------------------------------------------------------
(* Errors thrown by the mail client.  `includes` is the set of the         *)
(* substrings the provider searches an error message for that occur in     *)
(* `message`.                                                              *)

Err(code, message, includes) ==
  [code |-> code, message |-> message, includes |-> includes]

\* thrown by client.connect()
ConnectErrors == {
  Err("ECONNREFUSED", "connect ECONNREFUSED", {"ECONNREFUSED"}),
  Err("AUTHENTICATIONFAILED", "Invalid credentials (Failure)",
      {"Invalid credentials"}) }
TimedConnectErrors ==
  ConnectErrors \cup {Err("ETIMEDOUT", "connect ETIMEDOUT", {"ETIMEDOUT"})}
AuthErrors == {e \in ConnectErrors : e.code = "AUTHENTICATIONFAILED"}

\* thrown by mailboxOpen, search, fetch, fetchOne on a borrowed client
OpErrors == {
  Err("ECONNRESET", "read ECONNRESET", {}),
  Err("ETIMEDOUT", "read ETIMEDOUT", {"ETIMEDOUT"}),
  Err("ENOTFOUND", "getaddrinfo ENOTFOUND imap.x", {}) }
TimedOpErrors ==
  OpErrors \cup {
    Err("", "Command failed", {}),
    Err("NoConnection", "Connection not available", {"Connection"}),
    Err("", "Mailbox does not exist", {"Mailbox does not exist"}) }

\* new Error(`邮件不存在: ${emailId}`)                       (imap.ts:668-670)
MessageNotFound == Err("", "message does not exist: id", {})

\* (a catch block that forgets ETIMEDOUT)
IsConnectionError_NoTimeout(e) ==
  \/ e.code = "ECONNRESET"
  \/ e.code = "ENOTFOUND"
  \/ "Connection" \in e.includes

\* The condition of the catch blocks of getEmails and getEmailContent.
IsConnectionError(e) ==
  \/ e.code = "ECONNRESET"
  \/ e.code = "ETIMEDOUT"
  \/ e.code = "ENOTFOUND"
  \/ "Connection" \in e.includes

\* metadata.total of an envelope that carries none
NoTotal == 0 - 1

\* handleError: the failure envelope.
handleError(e, operation) ==
  LET network == "ECONNREFUSED" \in e.includes \/ "ETIMEDOUT" \in e.includes
      auth == "AUTHENTICATIONFAILED" \in e.includes
                \/ "Invalid credentials" \in e.includes
      api == "Mailbox does not exist" \in e.includes
      type == IF network THEN "NETWORK_ERROR"
              ELSE IF auth THEN "AUTHENTICATION_ERROR"
              ELSE IF api THEN "API_ERROR"
              ELSE "UNKNOWN_ERROR"
      message == IF network THEN "IMAP connection failed"
                 ELSE IF auth THEN "IMAP authentication failed"
                 ELSE IF api THEN "IMAP mailbox directory does not exist"
                 ELSE e.message
  IN [success |-> FALSE, type |-> type, retryable |-> (type = "NETWORK_ERROR"),
      message |-> message, operation |-> operation,
      details |-> (network \/ auth \/ api), data |-> <<>>, total |-> NoTotal]

\* the values of ChannelErrorType handleError assigns
Taxonomy ==
  {"NETWORK_ERROR", "AUTHENTICATION_ERROR", "API_ERROR", "UNKNOWN_ERROR"}

SuccessEnvelope(operation, data) ==
  [success |-> TRUE, type |-> "", retryable |-> FALSE, message |-> "",
   operation |-> operation, details |-> FALSE, data |-> data,
   total |-> NoTotal]

\* the envelope getEmails returns: data: messages, metadata.total:
\* messages.length                                        (imap.ts:187-196)
ListEnvelope(messages) ==
  [SuccessEnvelope("getEmails", messages) EXCEPT !.total = Len(messages)]

NoEnvelope ==
  [success |-> FALSE, type |-> "", retryable |-> FALSE, message |-> "",
   operation |-> "", details |-> FALSE, data |-> <<>>, total |-> NoTotal]

----------------------------------------------------------------------------
(* fetchRecentMessages (imap.ts:556-643).  A fetched message is            *)
(* [uid, to, cc, bcc, hasDate, internalDate]; a missing address list is    *)
(* the empty one, as in `envelope.to?.map(...) || []`.                     *)

Msg(uid, to, cc, bcc, hasDate, date) ==
  [uid |-> uid, to |-> to, cc |-> cc, bcc |-> bcc, hasDate |-> hasDate,
   internalDate |-> date]

\* msg.internalDate || new Date()
ReceivedAt(m, t) == IF m.hasDate THEN m.internalDate ELSE t

\* envelope.x?.map(addr => addr.address?.toLowerCase()) || []
LowerAddresses(list) == [i \in 1..Len(list) |-> toLowerCase(list[i])]

\* s occurs in t as a substring
Occurs(s, t) ==
  \E i \in 0..(Len(t) - Len(s)) : SubSeq(t, i + 1, i + Len(s)) = s

\* (a filter that looks for the address inside each recipient)
RecipientMatches_Substring(m, tempEmailAddress) ==
  LET allRecipients ==
        LowerAddresses(m.to) \o LowerAddresses(m.cc) \o LowerAddresses(m.bcc)
      tempEmailLower == toLowerCase(tempEmailAddress)
  IN \E i \in 1..Len(allRecipients) : Occurs(tempEmailLower, allRecipients[i])

\* allRecipients.includes(tempEmailLower)
RecipientMatches(m, tempEmailAddress) ==
  LET allRecipients ==
        LowerAddresses(m.to) \o LowerAddresses(m.cc) \o LowerAddresses(m.bcc)
      tempEmailLower == toLowerCase(tempEmailAddress)
  IN \E i \in 1..Len(allRecipients) : allRecipients[i] = tempEmailLower

\* (a loop that trusts the server's search)
TooOld_Trusting(m, since, t) == FALSE

\* receivedAt.getTime() < since.getTime()
TooOld(m, since, t) == ReceivedAt(m, t) < since

\* the EmailMessage pushed for a fetched message
EmailMessage(m, t) ==
  [id |-> m.uid, to |-> m.to, cc |-> m.cc, receivedAt |-> ReceivedAt(m, t)]

\* the body of the `for await` loop: skip or push
RECURSIVE CollectMessages(_, _, _, _)
CollectMessages(fetched, tempEmailAddress, since, t) ==
  IF fetched = <<>> THEN <<>>
  ELSE LET m == Head(fetched)
           rest == CollectMessages(Tail(fetched), tempEmailAddress, since, t)
       IN IF TooOld(m, since, t) THEN rest
          ELSE IF ~RecipientMatches(m, tempEmailAddress) THEN rest
          ELSE <<EmailMessage(m, t)>> \o rest

\* messages.sort((a, b) => b.receivedAt - a.receivedAt): a stable sort
RECURSIVE InsertByDate(_, _)
InsertByDate(sorted, x) ==
  IF sorted = <<>> THEN <<x>>
  ELSE IF Head(sorted).receivedAt >= x.receivedAt
       THEN <<Head(sorted)>> \o InsertByDate(Tail(sorted), x)
       ELSE <<x>> \o sorted

\* (a result left in the order the server sent it)
SortByDateDesc_Unsorted(ms) == ms

RECURSIVE SortByDateDesc(_)
SortByDateDesc(ms) ==
  IF ms = <<>> THEN <<>>
  ELSE InsertByDate(SortByDateDesc(SubSeq(ms, 1, Len(ms) - 1)), ms[Len(ms)])

\* (a listing cut to its newest message)
fetchRecentMessages_Limited(fetched, tempEmailAddress, t) ==
  LET all == SortByDateDesc(CollectMessages(fetched, tempEmailAddress,
                                            t - DAY_MS, t))
  IN IF all = <<>> THEN <<>> ELSE <<all[1]>>

fetchRecentMessages(fetched, tempEmailAddress, t) ==
  LET since == t - DAY_MS
  IN IF fetched = <<>> THEN <<>>
     ELSE SortByDateDesc(CollectMessages(fetched, tempEmailAddress, since, t))

\* The folder INBOX the server holds for every account.
Mailbox == <<
  Msg(1, <<Addr_a>>, <<>>, <<>>, TRUE, StartTime),
  Msg(2, <<Addr_b>>, <<Addr_sa>>, <<>>, TRUE, StartTime),
  Msg(3, <<Addr_b>>, <<>>, <<Addr_A>>, TRUE, StartTime) >>

\* The messages of a folder of an account: every other folder is empty.
Folder(path) == IF path = "INBOX" THEN Mailbox ELSE <<>>

\* client.fetchOne(uid, ..., {uid: true}) with the folder selected
FetchOne(path, uid) ==
  {m \in {Folder(path)[i] : i \in DOMAIN Folder(path)} : m.uid = uid}

----------------------------------------------------------------------------
(* The connection pool (imap.ts:431-548).  A client is a handle number     *)
(* into conn, which holds the clients that are still referenced or whose   *)
(* listeners have not run yet; conn[h] is                                  *)
(*   cfg     the config connectImap was called with (its listeners close   *)
(*           over it)                                                      *)
(*   state   "connecting", "open" (connect() resolved) or "failed"         *)
(*   usable  ImapFlow's usable flag                                        *)
(*   logout  logout() has been called on it                                *)
(*   closed  it has emitted 'error'/'close', or failed to connect          *)
(*   selected  the folder the last mailboxOpen selected on it, while a     *)
(*           request that has opened its folder is searching or fetching   *)
(*           on it; "" otherwise: every request opens its folder before    *)
(*           its first search or fetch, so no other selection is read      *)

NewClient(c) ==
  [cfg |-> c, state |-> "connecting", usable |-> FALSE, logout |-> FALSE,
   closed |-> FALSE, selected |-> ""]

PoolDelete(p, key) == [k \in DOMAIN p \ {key} |-> p[k]]
PoolSet(p, key, entry) ==
  [k \in DOMAIN p \cup {key} |-> IF k = key THEN entry ELSE p[k]]
PoolClients(p) == {p[k].client : k \in DOMAIN p}

\* pooled.client.logout().catch(() => {})
Logout(cn, h) == [cn EXCEPT ![h].logout = TRUE]

\* (a getConnection that skips the usable probe)
PooledUsable_NoProbe(p, cn, key) == key \in DOMAIN p

\* `if (pooled) { ... if (pooled.client.usable)` of getConnection
PooledUsable(p, cn, key) == key \in DOMAIN p /\ cn[p[key].client].usable

\* removeConnection(config): the pool and the clients afterwards
removeConnection(p, cn, cfg) ==
  LET key == getConnectionKey(cfg)
  IN IF key \in DOMAIN p
     THEN [pool |-> PoolDelete(p, key), conn |-> Logout(cn, p[key].client)]
     ELSE [pool |-> p, conn |-> cn]

\* releaseConnection(config, client)
releaseConnection(p, cfg, client, t) ==
  LET key == getConnectionKey(cfg)
  IN IF key \in DOMAIN p /\ p[key].client = client
     THEN [p EXCEPT ![key].lastUsed = t]
     ELSE p

\* (a cleanup that evicts at the threshold already: >= for >)
CleanupEntry_AtThreshold(pc, key, t) ==
  LET pooled == pc.pool[key]
      idleTime == t - pooled.lastUsed
  IN IF idleTime >= CONNECTION_MAX_IDLE
     THEN [pool |-> PoolDelete(pc.pool, key),
           conn |-> Logout(pc.conn, pooled.client)]
     ELSE IF ~pc.conn[pooled.client].usable
     THEN [pool |-> PoolDelete(pc.pool, key), conn |-> pc.conn]
     ELSE pc

\* One iteration of the loop of the cleanup timer, for the entry under key.
CleanupEntry(pc, key, t) ==
  LET pooled == pc.pool[key]
      idleTime == t - pooled.lastUsed
  IN IF idleTime > CONNECTION_MAX_IDLE
     THEN [pool |-> PoolDelete(pc.pool, key),
           conn |-> Logout(pc.conn, pooled.client)]
     ELSE IF ~pc.conn[pooled.client].usable
     THEN [pool |-> PoolDelete(pc.pool, key), conn |-> pc.conn]
     ELSE pc

\* for (const [key, pooled] of this.connectionPool.entries()) { ... }
RECURSIVE CleanupLoop(_, _, _)
CleanupLoop(pc, keys, t) ==
  IF keys = {} THEN pc
  ELSE LET key == CHOOSE k \in keys : TRUE
       IN CleanupLoop(CleanupEntry(pc, key, t), keys \ {key}, t)

----------------------------------------------------------------------------
(* Requests.  pc: "idle", "connecting" (awaiting connectImap), "opening"   *)
(* (awaiting mailboxOpen), "fetching" (awaiting search/fetch/fetchOne),    *)
(* "done" (the envelope is returned; the locals are gone).                 *)

\* What a caller may ask for: [op, cfg, addr, emailId].  The second config
\* has the key of the first and another password.
Call(op, c, addr, emailId) ==
  [op |-> op, cfg |-> c, addr |-> addr, emailId |-> emailId]
Calls == {
  Call("getEmails", 1, Addr_a, 0),
  Call("getEmails", 2, Addr_b, 0),
  Call("getEmailContent", 3, Addr_a, 1) }
\* ... and with the id of no message
TimedCalls == Calls \cup {Call("getEmailContent", 3, Addr_a, 9)}

IdleReq ==
  [pc |-> "idle", op |-> "", cfg |-> 1, flaw |-> "none", addr |-> <<>>,
   emailId |-> 0, client |-> 0, out |-> NoEnvelope]
Done(envelope) == [IdleReq EXCEPT !.pc = "done", !.out = envelope]

Borrowing(r) == req[r].pc \in {"opening", "fetching"}
Holders(rq) == {rq[r].client : r \in {x \in Reqs : rq[x].pc # "idle" /\ rq[x].pc # "done"}}

\* A client whose listener has run, that no pool entry and no request holds,
\* is garbage: nothing can reach it any more.
Retain(cn, p, rq) ==
  [h \in {x \in DOMAIN cn :
            ~cn[x].closed \/ x \in PoolClients(p) \/ x \in Holders(rq)} |-> cn[h]]

\* The selection of a client on which no request is searching or fetching
\* is never read again.
Unselect(cn, rq) ==
  [h \in DOMAIN cn |->
     IF \E r \in Reqs : rq[r].pc = "fetching" /\ rq[r].client = h
     THEN cn[h] ELSE [cn[h] EXCEPT !.selected = ""]]

Commit(p, cn, rq) ==
  /\ connectionPool' = p
  /\ req' = rq
  /\ conn' = Retain(Unselect(cn, rq), p, rq)

Init ==
  /\ connectionPool = [k \in {} |-> 0]
  /\ conn = [h \in {} |-> 0]
  /\ created = 0
  /\ req = [r \in Reqs |-> IdleReq]
  /\ now = StartTime
  /\ ticks = 0
  /\ listIn = <<>> /\ listOut = <<>>
  /\ codecIn = <<>> /\ codecOut = <<>>

\* getConnection up to its first suspension, for the session of a parsed
\* token: it returns the pooled client or starts connectImap.
Acquire(r, call) ==
  LET c == call.cfg
      key == KeyOf(c)
      started == [IdleReq EXCEPT !.op = call.op, !.cfg = c, !.addr = call.addr,
                                 !.emailId = call.emailId]
      h == created + 1
  IN /\ req[r].pc = "idle"
     /\ IF PooledUsable(connectionPool, conn, key)
        THEN /\ Commit([connectionPool EXCEPT ![key].lastUsed = now], conn,
                       [req EXCEPT ![r] =
                          [started EXCEPT !.pc = "opening",
                                          !.client = connectionPool[key].client]])
             /\ created' = created
        ELSE /\ created < MaxHandles
             /\ Commit(PoolDelete(connectionPool, key),
                       [x \in DOMAIN conn \cup {h} |->
                          IF x = h THEN NewClient(c) ELSE conn[x]],
                       [req EXCEPT ![r] =
                          [started EXCEPT !.pc = "connecting", !.client = h]])
             /\ created' = h

\* getEmails / getEmailContent up to the first suspension, called with a
\* token that parses into the session of the call.
Begin(r, call) ==
  /\ Acquire(r, call)
  /\ UNCHANGED <<now, ticks, listVars, codecVars>>

\* client.connect() resolved: getConnection stores the client and returns it.
ConnectOk(r) ==
  LET h == req[r].client
      cfg == Configs[req[r].cfg]
  IN /\ req[r].pc = "connecting"
     /\ LoginAccepted(cfg)
     /\ ~conn[h].closed
     /\ Commit(PoolSet(connectionPool, getConnectionKey(cfg),
                       [client |-> h, lastUsed |-> now]),
               [conn EXCEPT ![h].state = "open", ![h].usable = TRUE],
               [req EXCEPT ![r].pc = "opening"])
     /\ UNCHANGED <<created, now, ticks, listVars, codecVars>>

\* (a getConnection that stores the client before connect() has settled)
ConnectFail_Stored(r, e, emitted) ==
  LET h == req[r].client
      cfg == Configs[req[r].cfg]
  IN /\ req[r].pc = "connecting"
     /\ e \in AuthErrors <=> ~LoginAccepted(cfg)
     /\ Commit(PoolSet(connectionPool, getConnectionKey(cfg),
                       [client |-> h, lastUsed |-> now]),
               [conn EXCEPT ![h].state = "failed", ![h].closed = TRUE],
               [req EXCEPT ![r] = Done(handleError(e, req[r].op))])
     /\ UNCHANGED <<created, now, ticks, listVars, codecVars>>

\* client.connect() rejected: connectImap rethrows, the request fails.  The
\* failing client may (emitted) or may not have told its listeners.
ConnectFail(r, e, emitted) ==
  LET h == req[r].client
      cfg == Configs[req[r].cfg]
      rm == IF emitted THEN removeConnection(connectionPool, conn, cfg)
            ELSE [pool |-> connectionPool, conn |-> conn]
  IN /\ req[r].pc = "connecting"
     /\ e \in AuthErrors <=> ~LoginAccepted(cfg)
     /\ Commit(rm.pool, [rm.conn EXCEPT ![h].state = "failed", ![h].closed = TRUE],
               [req EXCEPT ![r] = Done(handleError(e, req[r].op))])
     /\ UNCHANGED <<created, now, ticks, listVars, codecVars>>

\* const mailbox = imapConfig.imap_dir || 'INBOX'
MailboxPath(cfg) == IF cfg.imap_dir = "" THEN "INBOX" ELSE cfg.imap_dir

\* await client.mailboxOpen(mailbox) resolved
MailboxOpenOk(r) ==
  /\ req[r].pc = "opening"
  /\ conn[req[r].client].usable
  /\ req' = [req EXCEPT ![r].pc = "fetching"]
  /\ conn' = [conn EXCEPT
               ![req[r].client].selected = MailboxPath(Configs[req[r].cfg])]
  /\ UNCHANGED <<connectionPool, created, now, ticks, listVars, codecVars>>

\* The catch and finally blocks of getEmails / getEmailContent, then the
\* outer catch: remove the connection on a connection error, release, fail.
Fail(r, e) ==
  LET cfg == Configs[req[r].cfg]
      rm == IF IsConnectionError(e)
            THEN removeConnection(connectionPool, conn, cfg)
            ELSE [pool |-> connectionPool, conn |-> conn]
  IN Commit(releaseConnection(rm.pool, cfg, req[r].client, now), rm.conn,
            [req EXCEPT ![r] = Done(handleError(e, req[r].op))])

\* mailboxOpen, search, fetch or fetchOne threw
OpFail(r, e) ==
  /\ Borrowing(r)
  /\ Fail(r, e)
  /\ UNCHANGED <<created, now, ticks, listVars, codecVars>>

\* fetchRecentMessages / fetchMessageContent returned (or the message was
\* not found), the finally block releases the client.
FetchDone(r) ==
  LET cfg == Configs[req[r].cfg]
      selected == conn[req[r].client].selected
      found == FetchOne(selected, req[r].emailId)
  IN /\ req[r].pc = "fetching"
     /\ conn[req[r].client].usable
     /\ IF req[r].op = "getEmailContent" /\ found = {}
        THEN Fail(r, MessageNotFound)
        ELSE Commit(releaseConnection(connectionPool, cfg, req[r].client, now),
                    conn,
                    [req EXCEPT ![r] = Done(
                       IF req[r].op = "getEmails"
                       THEN ListEnvelope(
                              fetchRecentMessages(Folder(selected), req[r].addr,
                                                  now))
                       ELSE SuccessEnvelope(req[r].op,
                              <<EmailMessage(CHOOSE m \in found : TRUE, now)>>))])
     /\ UNCHANGED <<created, now, ticks, listVars, codecVars>>

\* The caller has the envelope; the request slot is free again.
Deliver(r) ==
  /\ req[r].pc = "done"
  /\ req' = [req EXCEPT ![r] = IdleReq]
  /\ UNCHANGED <<connectionPool, conn, created>>

Return(r) ==
  /\ Deliver(r)
  /\ UNCHANGED <<now, ticks, listVars, codecVars>>

\* The callback of setInterval in startPoolCleanup.
PoolCleanup ==
  LET after == CleanupLoop([pool |-> connectionPool, conn |-> conn],
                           DOMAIN connectionPool, now)
  IN /\ Commit(after.pool, after.conn, req)
     /\ UNCHANGED <<created, now, ticks, listVars, codecVars>>

\* The transport of a pooled client dies: usable turns false before any
\* listener has run.
ConnLost(h) ==
  /\ conn[h].state = "open" /\ conn[h].usable
  /\ h \in PoolClients(connectionPool)
  /\ conn' = [conn EXCEPT ![h].usable = FALSE]
  /\ UNCHANGED <<connectionPool, created, req, now, ticks, listVars, codecVars>>

\* client.on('error' | 'close'): this.removeConnection(config)
ConnEvent(h) ==
  LET rm == removeConnection(connectionPool, conn, Configs[conn[h].cfg])
  IN /\ conn[h].state = "open"
     /\ ~conn[h].closed
     /\ Commit(rm.pool, [rm.conn EXCEPT ![h].usable = FALSE, ![h].closed = TRUE],
               req)
     /\ UNCHANGED <<created, now, ticks, listVars, codecVars>>

Tick(d) ==
  /\ ticks < MaxTicks
  /\ now' = now + d
  /\ ticks' = ticks + 1
  /\ UNCHANGED <<connectionPool, conn, created, req, listVars, codecVars>>

Next ==
  \/ \E r \in Reqs, call \in Calls : Begin(r, call)
  \/ \E r \in Reqs : ConnectOk(r)
  \/ \E r \in Reqs, e \in ConnectErrors, emitted \in BOOLEAN :
        ConnectFail(r, e, emitted)
  \/ \E r \in Reqs : MailboxOpenOk(r)
  \/ \E r \in Reqs, e \in OpErrors : OpFail(r, e)
  \/ \E r \in Reqs : FetchDone(r)
  \/ \E r \in Reqs : Return(r)
  \/ PoolCleanup
  \/ \E h \in DOMAIN conn : ConnLost(h)
  \/ \E h \in DOMAIN conn : ConnEvent(h)

Spec == Init /\ [][Next]_vars

\* One request at a time, and time passes.
NextTimed ==
  \/ \E call \in TimedCalls : Begin(1, call)
  \/ ConnectOk(1)
  \/ \E e \in TimedConnectErrors, emitted \in BOOLEAN :
        ConnectFail(1, e, emitted)
  \/ MailboxOpenOk(1)
  \/ \E e \in TimedOpErrors : OpFail(1, e)
  \/ FetchDone(1)
  \/ Return(1)
  \/ PoolCleanup
  \/ \E h \in DOMAIN conn : ConnLost(h)
  \/ \E h \in DOMAIN conn : ConnEvent(h)
  \/ \E d \in TickSteps : Tick(d)

SpecTimed == Init /\ [][NextTimed]_vars

\* Two concurrent requests of one account, for its two folders, for an
\* address no message names and for a message addressed elsewhere.
FolderCalls == {
  Call("getEmails", 1, Addr_a, 0),
  Call("getEmails", 4, Addr_a, 0),
  Call("getEmails", 1, Addr_acc, 0),
  Call("getEmailContent", 1, Addr_a, 2) }

NextFolder ==
  \/ \E r \in Reqs, call \in FolderCalls : Begin(r, call)
  \/ \E r \in Reqs : ConnectOk(r)
  \/ \E r \in Reqs : MailboxOpenOk(r)
  \/ \E r \in Reqs, e \in OpErrors : OpFail(r, e)
  \/ \E r \in Reqs : FetchDone(r)
  \/ \E r \in Reqs : Return(r)

SpecFolder == Init /\ [][NextFolder]_vars

----------------------------------------------------------------------------
(* The session codec (utils/crypto.ts).  Text is a sequence of UTF-16 code *)
(* units below 0xD800, a Buffer a sequence of bytes.  A JSON value is      *)
(* [t, s, n, o]: a string s, a number n or an object with the members o,   *)
(* each [k, v], in insertion order.                                        *)

JStr(s) == [t |-> "string", s |-> s, n |-> 0, o |-> <<>>]
JNum(n) == [t |-> "number", s |-> <<>>, n |-> n, o |-> <<>>]
JObj(o) == [t |-> "object", s |-> <<>>, n |-> 0, o |-> o]
Member(k, v) == [k |-> k, v |-> v]

\* the concatenation of seqs[lo], ..., seqs[hi]
RECURSIVE ConcatRange(_, _, _)
ConcatRange(seqs, lo, hi) ==
  IF lo > hi THEN <<>>
  ELSE IF lo = hi THEN seqs[lo]
  ELSE LET mid == (lo + hi) \div 2
       IN ConcatRange(seqs, lo, mid) \o ConcatRange(seqs, mid + 1, hi)
Concat(seqs) == ConcatRange(seqs, 1, Len(seqs))

HexDigit(d) == IF d < 10 THEN 48 + d ELSE 87 + d
HexValue(c) ==
  IF c >= 48 /\ c <= 57 THEN c - 48
  ELSE IF c >= 97 /\ c <= 102 THEN c - 87
  ELSE IF c >= 65 /\ c <= 70 THEN c - 55
  ELSE 16
IsHex(c) == HexValue(c) < 16

\* a stringify that copies every character as it is
QuoteChar_Raw(c) == <<c>>

\* JSON.stringify of one character of a string
QuoteChar(c) ==
  IF c = 34 THEN <<92, 34>>
  ELSE IF c = 92 THEN <<92, 92>>
  ELSE IF c = 10 THEN <<92, 110>>
  ELSE IF c < 32 THEN <<92, 117, 48, 48, HexDigit(c \div 16), HexDigit(c % 16)>>
  ELSE <<c>>
Quote(s) == <<34>> \o Concat([i \in 1..Len(s) |-> QuoteChar(s[i])]) \o <<34>>

RECURSIVE Digits(_)
Digits(n) == IF n < 10 THEN <<48 + n>> ELSE Digits(n \div 10) \o <<48 + (n % 10)>>

\* JSON.stringify(value)
RECURSIVE JSONStringify(_)
JSONStringify(v) ==
  IF v.t = "string" THEN Quote(v.s)
  ELSE IF v.t = "number" THEN Digits(v.n)
  ELSE <<123>>
       \o Concat([i \in 1..Len(v.o) |->
            (IF i > 1 THEN <<44>> ELSE <<>>)
              \o Quote(v.o[i].k) \o <<58>> \o JSONStringify(v.o[i].v)])
       \o <<125>>

\* JSON.parse: [ok, v, next], next the position after the value read.
ParseError == [ok |-> FALSE, v |-> JNum(0), next |-> 0]
Parsed(v, next) == [ok |-> TRUE, v |-> v, next |-> next]

\* the characters of a string literal from position i on, acc read so far
RECURSIVE ParseChars(_, _, _)
ParseChars(txt, i, acc) ==
  IF i > Len(txt) THEN ParseError
  ELSE IF txt[i] = 34 THEN Parsed(JStr(acc), i + 1)
  ELSE IF txt[i] < 32 THEN ParseError
  ELSE IF txt[i] # 92 THEN ParseChars(txt, i + 1, Append(acc, txt[i]))
  ELSE IF i + 1 > Len(txt) THEN ParseError
  ELSE IF txt[i + 1] \in {34, 92, 47} THEN ParseChars(txt, i + 2, Append(acc, txt[i + 1]))
  ELSE IF txt[i + 1] = 110 THEN ParseChars(txt, i + 2, Append(acc, 10))
  ELSE IF txt[i + 1] = 116 THEN ParseChars(txt, i + 2, Append(acc, 9))
  ELSE IF txt[i + 1] = 114 THEN ParseChars(txt, i + 2, Append(acc, 13))
  ELSE IF txt[i + 1] = 117 /\ i + 5 <= Len(txt)
          /\ \A j \in 2..5 : IsHex(txt[i + j])
       THEN ParseChars(txt, i + 6,
              Append(acc, 4096 * HexValue(txt[i + 2]) + 256 * HexValue(txt[i + 3])
                          + 16 * HexValue(txt[i + 4]) + HexValue(txt[i + 5])))
  ELSE ParseError

IsDigit(c) == c >= 48 /\ c <= 57
RECURSIVE ParseDigits(_, _, _)
ParseDigits(txt, i, acc) ==
  IF i <= Len(txt) /\ IsDigit(txt[i])
  THEN ParseDigits(txt, i + 1, 10 * acc + (txt[i] - 48))
  ELSE Parsed(JNum(acc), i)

RECURSIVE ParseValue(_, _)
RECURSIVE ParseMembers(_, _, _)
RECURSIVE AfterKey(_, _, _)
RECURSIVE AfterValue(_, _, _, _)
ParseValue(txt, i) ==
  IF i > Len(txt) THEN ParseError
  ELSE IF txt[i] = 34 THEN ParseChars(txt, i + 1, <<>>)
  ELSE IF txt[i] = 48 THEN
         IF i + 1 <= Len(txt) /\ IsDigit(txt[i + 1]) THEN ParseError
         ELSE Parsed(JNum(0), i + 1)
  ELSE IF IsDigit(txt[i]) THEN ParseDigits(txt, i, 0)
  ELSE IF txt[i] = 123 THEN
         IF i + 1 <= Len(txt) /\ txt[i + 1] = 125 THEN Parsed(JObj(<<>>), i + 2)
         ELSE ParseMembers(txt, i + 1, <<>>)
  ELSE ParseError

\* "key":value , ... } from position i on, acc the members read so far
ParseMembers(txt, i, acc) ==
  IF i > Len(txt) \/ txt[i] # 34 THEN ParseError
  ELSE AfterKey(txt, ParseChars(txt, i + 1, <<>>), acc)

\* key is the member name read: a colon and the member's value follow
AfterKey(txt, key, acc) ==
  IF ~key.ok \/ key.next > Len(txt) \/ txt[key.next] # 58 THEN ParseError
  ELSE AfterValue(txt, key.v.s, ParseValue(txt, key.next + 1), acc)

\* val is the value read for the name k: a comma or the closing brace follows
AfterValue(txt, k, val, acc) ==
  IF ~val.ok \/ val.next > Len(txt) THEN ParseError
  ELSE IF txt[val.next] = 125
  THEN Parsed(JObj(Append(acc, Member(k, val.v))), val.next + 1)
  ELSE IF txt[val.next] = 44
  THEN ParseMembers(txt, val.next + 1, Append(acc, Member(k, val.v)))
  ELSE ParseError

WholeText(txt, r) == IF r.ok /\ r.next = Len(txt) + 1 THEN r ELSE ParseError
JSONParse(txt) == WholeText(txt, ParseValue(txt, 1))

\* Buffer.from(string, 'utf8')
Utf8Char(c) ==
  IF c < 128 THEN <<c>>
  ELSE IF c < 2048 THEN <<192 + c \div 64, 128 + (c % 64)>>
  ELSE <<224 + c \div 4096, 128 + ((c \div 64) % 64), 128 + (c % 64)>>
Utf8Encode(s) == Concat([i \in 1..Len(s) |-> Utf8Char(s[i])])

\* buffer.toString('utf-8'): an ill-formed byte decodes to U+FFFD
IsTail(b, i) == i >= 1 /\ i <= Len(b) /\ b[i] >= 128 /\ b[i] < 192
TwoBytes(b, i) ==
  i >= 1 /\ i <= Len(b) /\ b[i] >= 194 /\ b[i] < 224 /\ IsTail(b, i + 1)
ThreeBytes(b, i) ==
  /\ i >= 1 /\ i <= Len(b) /\ b[i] >= 224 /\ b[i] < 240
  /\ IsTail(b, i + 1) /\ IsTail(b, i + 2)
  /\ (b[i] - 224) * 4096 + (b[i + 1] - 128) * 64 >= 2048
\* what the byte at i contributes: the character it starts, nothing when it
\* continues a character started before it, U+FFFD otherwise
Utf8At(b, i) ==
  IF b[i] < 128 THEN <<b[i]>>
  ELSE IF TwoBytes(b, i) THEN <<(b[i] - 192) * 64 + (b[i + 1] - 128)>>
  ELSE IF ThreeBytes(b, i)
       THEN <<(b[i] - 224) * 4096 + (b[i + 1] - 128) * 64 + (b[i + 2] - 128)>>
  ELSE IF IsTail(b, i) /\ (TwoBytes(b, i - 1) \/ ThreeBytes(b, i - 1) \/ ThreeBytes(b, i - 2))
       THEN <<>>
  ELSE <<65533>>
Utf8Decode(b) == Concat([i \in 1..Len(b) |-> Utf8At(b, i)])

\* buffer.toString('base64')
Base64Char(n) ==
  IF n < 26 THEN 65 + n
  ELSE IF n < 52 THEN 71 + n
  ELSE IF n < 62 THEN n - 4
  ELSE IF n = 62 THEN 43 ELSE 47
ByteAt(b, i) == IF i <= Len(b) THEN b[i] ELSE 0
Base64Encode(b) ==
  <<>> \o [j \in 1..(4 * ((Len(b) + 2) \div 3)) |->
     LET g == 3 * ((j - 1) \div 4)
         k == (j - 1) % 4
     IN IF g + k > Len(b) THEN 61
        ELSE IF k = 0 THEN Base64Char(ByteAt(b, g + 1) \div 4)
        ELSE IF k = 1
        THEN Base64Char(16 * (ByteAt(b, g + 1) % 4) + (ByteAt(b, g + 2) \div 16))
        ELSE IF k = 2
        THEN Base64Char(4 * (ByteAt(b, g + 2) % 16) + (ByteAt(b, g + 3) \div 64))
        ELSE Base64Char(ByteAt(b, g + 3) % 64)]

\* Buffer.from(token, 'base64'): the sextets up to the first character that
\* is no base64 digit, three bytes for every four of them and one or two
\* for a rest of two or three.
Base64Value(c) ==
  IF c >= 65 /\ c <= 90 THEN c - 65
  ELSE IF c >= 97 /\ c <= 122 THEN c - 71
  ELSE IF c >= 48 /\ c <= 57 THEN c + 4
  ELSE IF c = 43 \/ c = 45 THEN 62
  ELSE IF c = 47 \/ c = 95 THEN 63
  ELSE 64
DigitsBefore(tok) ==
  IF \E i \in 1..Len(tok) : Base64Value(tok[i]) = 64
  THEN (CHOOSE i \in 1..Len(tok) :
          /\ Base64Value(tok[i]) = 64
          /\ \A j \in 1..(i - 1) : Base64Value(tok[j]) < 64) - 1
  ELSE Len(tok)
SextetAt(tok, n, i) == IF i <= n THEN Base64Value(tok[i]) ELSE 0
Base64Bytes(tok, n) ==
  <<>> \o [j \in 1..(3 * (n \div 4) + (IF n % 4 > 1 THEN (n % 4) - 1 ELSE 0)) |->
     LET g == 4 * ((j - 1) \div 3)
         k == (j - 1) % 3
     IN IF k = 0 THEN (4 * SextetAt(tok, n, g + 1) + (SextetAt(tok, n, g + 2) \div 16)) % 256
        ELSE IF k = 1
        THEN (16 * SextetAt(tok, n, g + 2) + (SextetAt(tok, n, g + 3) \div 4)) % 256
        ELSE (64 * SextetAt(tok, n, g + 3) + SextetAt(tok, n, g + 4)) % 256]
Base64Decode(tok) == Base64Bytes(tok, DigitsBefore(tok))

\* cipher.update(plaintext, 'utf8', 'hex') and Buffer.from(encrypted, 'hex')
HexEncode(b) ==
  <<>> \o [j \in 1..(2 * Len(b)) |->
     IF j % 2 = 1 THEN HexDigit(b[(j + 1) \div 2] \div 16)
     ELSE HexDigit(b[j \div 2] % 16)]
HexDecode(h) ==
  <<>> \o [j \in 1..(Len(h) \div 2) |-> 16 * HexValue(h[2 * j - 1]) + HexValue(h[2 * j])]

\* encodeImapSession / decodeImapSession
encodeImapSession(session) == Base64Encode(Utf8Encode(JSONStringify(session)))
decodeImapSession(token) == JSONParse(Utf8Decode(Base64Decode(token)))

\* aes-256-gcm of the crypto module, as a keyed stream cipher with a tag over
\* key, IV and ciphertext: the key is the digest of the secret, the stream
\* depends on key, IV and position, and decipher.final() throws unless the
\* tag presented is the tag of what was deciphered.
RECURSIVE XorBits(_, _, _)
XorBits(a, b, n) ==
  IF n = 0 THEN 0
  ELSE ((a + b) % 2) + 2 * XorBits(a \div 2, b \div 2, n - 1)
Xor(a, b) == XorBits(a, b, 8)

\* the sum of b[i] * (i + w) for i in lo..hi, modulo 256
RECURSIVE WeightedSum(_, _, _, _)
WeightedSum(b, lo, hi, w) ==
  IF lo > hi THEN 0
  ELSE IF lo = hi THEN (b[lo] * ((lo + w) % 256)) % 256
  ELSE LET mid == (lo + hi) \div 2
       IN (WeightedSum(b, lo, mid, w) + WeightedSum(b, mid + 1, hi, w)) % 256

\* crypto.createHash('sha256').update(secretKey).digest(): 32 bytes
Sha256(secretKey) ==
  LET b == Utf8Encode(secretKey)
  IN <<>> \o [i \in 1..32 |-> (WeightedSum(b, 1, Len(b), i) + 31 * i + Len(b)) % 256]

KeyStream(key, iv, i) ==
  (key[((i - 1) % 32) + 1] + 3 * iv[((i - 1) % 16) + 1] + 7 * i) % 256
CipherUpdate(key, iv, data) ==
  <<>> \o [i \in 1..Len(data) |-> Xor(data[i], KeyStream(key, iv, i))]
\* the sum of b[i] times an odd weight over i, i + 16, ..., modulo 256
RECURSIVE StrideSum(_, _)
StrideSum(b, i) ==
  IF i > Len(b) THEN 0
  ELSE (b[i] * (1 + 2 * ((i - 1) \div 16)) + StrideSum(b, i + 16)) % 256
getAuthTag(key, iv, encrypted) ==
  <<>> \o [j \in 1..16 |->
             (key[j] + iv[j] + Len(encrypted) + StrideSum(encrypted, j)) % 256]

\* encryptImapSession, iv the bytes randomBytes(16) returned
Combine(key, iv, encrypted) ==
  iv \o getAuthTag(key, iv, HexDecode(encrypted)) \o HexDecode(encrypted)
encryptImapSession(session, secretKey, iv) ==
  Base64Encode(
    Combine(Sha256(secretKey), iv,
            HexEncode(CipherUpdate(Sha256(secretKey), iv,
                                   Utf8Encode(JSONStringify(session))))))

\* decryptImapSession: ParseError stands for every exception thrown
Decipher(key, iv, authTag, encrypted) ==
  IF authTag # getAuthTag(key, iv, encrypted) THEN ParseError
  ELSE JSONParse(Utf8Decode(CipherUpdate(key, iv, HexDecode(HexEncode(encrypted)))))
Separate(combined, key) ==
  IF Len(combined) < 32 THEN ParseError
  ELSE Decipher(key, SubSeq(combined, 1, 16), SubSeq(combined, 17, 32),
                SubSeq(combined, 33, Len(combined)))
decryptImapSession(token, secretKey) ==
  Separate(Base64Decode(token), Sha256(secretKey))

----------------------------------------------------------------------------
(* SpecList: fetchRecentMessages on what one search and fetch return.      *)

ListNow == StartTime + 1
InWindow == [hasDate |-> TRUE, internalDate |-> ListNow]

\* The recipients a fetched envelope may carry: [to, cc, bcc].
ToLists == {<<>>, <<Addr_a>>, <<Addr_A>>, <<Addr_b>>, <<Addr_sa>>, <<Addr_acc>>,
            <<NoAddress>>}
CopyLists == {[cc |-> <<>>, bcc |-> <<>>], [cc |-> <<Addr_A>>, bcc |-> <<>>],
              [cc |-> <<>>, bcc |-> <<Addr_a>>]}
\* The internal dates: one millisecond before the cutoff, at the cutoff,
\* now, and missing.
Dates == {[hasDate |-> TRUE, internalDate |-> ListNow - DAY_MS - 1],
          [hasDate |-> TRUE, internalDate |-> ListNow - DAY_MS],
          InWindow,
          [hasDate |-> FALSE, internalDate |-> 0]}

\* A fetched message without its uid.
Shape(to, copy, date) ==
  [to |-> to, cc |-> copy.cc, bcc |-> copy.bcc, hasDate |-> date.hasDate,
   internalDate |-> date.internalDate]
Shapes ==
  {Shape(to, copy, InWindow) : to \in ToLists, copy \in CopyLists}
    \cup {Shape(<<Addr_a>>, [cc |-> <<>>, bcc |-> <<>>], d) : d \in Dates}

\* The server numbers the messages it returns: uid = position.
Fetched(shapes) ==
  [i \in 1..Len(shapes) |->
     Msg(i, shapes[i].to, shapes[i].cc, shapes[i].bcc, shapes[i].hasDate,
         shapes[i].internalDate)]

ListAddresses == {Addr_a, Addr_A, Addr_b}
NotListed == [done |-> FALSE, messages |-> <<>>]

InitList ==
  /\ connectionPool = [k \in {} |-> 0]
  /\ conn = [h \in {} |-> 0]
  /\ created = 0
  /\ req = [r \in Reqs |-> IdleReq]
  /\ now = ListNow
  /\ ticks = 0
  /\ \E n \in 0..MaxFetched : \E shapes \in [1..n -> Shapes] :
       \E addr \in ListAddresses :
         listIn = [fetched |-> Fetched(shapes), addr |-> addr]
  /\ listOut = NotListed
  /\ codecIn = <<>> /\ codecOut = <<>>

ListRecent ==
  /\ ~listOut.done
  /\ listOut' = [done |-> TRUE,
                 messages |-> fetchRecentMessages(listIn.fetched, listIn.addr, now)]
  /\ UNCHANGED <<poolVars, listIn, codecVars>>

NextList == ListRecent

SpecList == InitList /\ [][NextList]_vars

\* The fetched message a returned message was made from.
Source(id) == listIn.fetched[id]
Recipients(m) == m.to \o m.cc \o m.bcc

\* Two strings are equal up to the case of their letters.
SameIgnoringCase(x, y) ==
  /\ Len(x) = Len(y)
  /\ \A j \in 1..Len(x) : LowerChar(x[j]) = LowerChar(y[j])

\* C1: every message fetchRecentMessages returns for the address has, among
\* its envelope To, Cc and Bcc, an address equal to it as a whole string up
\* to case.
C1_ExactRecipient ==
  listOut.done =>
    \A i \in 1..Len(listOut.messages) :
      LET m == Source(listOut.messages[i].id)
      IN \E j \in 1..Len(Recipients(m)) :
           /\ Recipients(m)[j] # NoAddress
           /\ SameIgnoringCase(Recipients(m)[j], listIn.addr)

\* C1 witness: of a message to s.a@x.c and a message to A@x.c, the query for
\* a@x.c returns the second only.
C1_Witness ==
  /\ listOut.done /\ listIn.addr = Addr_a
  /\ Len(listIn.fetched) = 2
  /\ listIn.fetched[1].to = <<Addr_sa>> /\ listIn.fetched[1].cc = <<>>
  /\ listIn.fetched[1].bcc = <<>>
  /\ listIn.fetched[2].to = <<Addr_A>>
  /\ Len(listOut.messages) = 1 /\ listOut.messages[1].id = 2

\* C20: every message fetchRecentMessages returns was received at or after
\* the cutoff, 24 hours before the time of the call: a fetched message with
\* an older internal date is discarded.
C20_NotOlderThanADay ==
  listOut.done =>
    \A i \in 1..Len(listOut.messages) :
      /\ listOut.messages[i].receivedAt >= now - DAY_MS
      /\ Source(listOut.messages[i].id).hasDate =>
           Source(listOut.messages[i].id).internalDate >= now - DAY_MS

\* C20 witness: of two messages to the address, one dated a millisecond
\* before the cutoff and one dated at the cutoff, only the second is returned.
C20_Witness ==
  /\ listOut.done /\ listIn.addr = Addr_a
  /\ Len(listIn.fetched) = 2
  /\ listIn.fetched[1].to = <<Addr_a>> /\ listIn.fetched[1].hasDate
  /\ listIn.fetched[1].internalDate = now - DAY_MS - 1
  /\ listIn.fetched[2].to = <<Addr_a>> /\ listIn.fetched[2].hasDate
  /\ listIn.fetched[2].internalDate = now - DAY_MS
  /\ Len(listOut.messages) = 1 /\ listOut.messages[1].id = 2

\* The fetched message passes the 24-hour check and the recipient check.
Passes(m) ==
  /\ (m.hasDate => m.internalDate >= now - DAY_MS)
  /\ \E j \in 1..Len(Recipients(m)) :
       /\ Recipients(m)[j] # NoAddress
       /\ SameIgnoringCase(Recipients(m)[j], listIn.addr)

\* The positions of the result made from the fetched message uid.
Returned(uid) ==
  {j \in 1..Len(listOut.messages) : listOut.messages[j].id = uid}

\* C21: fetchRecentMessages returns every fetched message that passes the
\* 24-hour check and the recipient check exactly once, whatever their
\* number, and no other message.
C21_EveryPassingOnce ==
  listOut.done =>
    \A i \in 1..Len(listIn.fetched) :
      Cardinality(Returned(i)) = IF Passes(listIn.fetched[i]) THEN 1 ELSE 0

\* C21 witness: of a message to a@x.c and a message to b@x.c, both inside
\* the window, the query for a@x.c returns exactly the first.
C21_Witness ==
  /\ listOut.done /\ listIn.addr = Addr_a
  /\ Len(listIn.fetched) = 2
  /\ listIn.fetched[1].to = <<Addr_a>> /\ listIn.fetched[2].to = <<Addr_b>>
  /\ \A i \in 1..2 : /\ listIn.fetched[i].cc = <<>>
                      /\ listIn.fetched[i].bcc = <<>>
                      /\ listIn.fetched[i].internalDate = now
  /\ Len(listOut.messages) = 1 /\ listOut.messages[1].id = 1

\* C22: the list fetchRecentMessages returns is ordered by receivedAt
\* descending: of two adjacent entries the earlier is not older.
C22_NewestFirst ==
  listOut.done =>
    \A j \in 1..(Len(listOut.messages) - 1) :
      listOut.messages[j].receivedAt >= listOut.messages[j + 1].receivedAt

\* C22 witness: the server sends the older of two messages first and the
\* result lists the newer first.
C22_Witness ==
  /\ listOut.done
  /\ Len(listIn.fetched) = 2 /\ Len(listOut.messages) = 2
  /\ listIn.fetched[1].hasDate /\ listIn.fetched[2].hasDate
  /\ listIn.fetched[1].internalDate < listIn.fetched[2].internalDate
  /\ listOut.messages[1].id = 2 /\ listOut.messages[2].id = 1

----------------------------------------------------------------------------
(* Properties of the connection pool *)

KeyOfReq(rq) == KeyOf(rq.cfg)
Pooled(h) == h \in PoolClients(connectionPool)
PooledAfter(h) == h \in PoolClients(connectionPool')

\* C2: getConnection returns the pooled client, its lastUsed set to now,
\* exactly when the key has an entry whose client is usable; otherwise it
\* drops the entry and connects a new client, and when that connect has
\* resolved the new, usable client is the entry of the key.
C2_AcquireStep(r) ==
  LET key == KeyOfReq(req'[r])
      hit == /\ key \in DOMAIN connectionPool
             /\ conn[connectionPool[key].client].usable
  IN /\ (req[r].pc = "idle" /\ req'[r].pc # "idle") =>
          IF hit
          THEN /\ req'[r].pc = "opening"
               /\ req'[r].client = connectionPool[key].client
               /\ connectionPool'[key] =
                    [client |-> connectionPool[key].client, lastUsed |-> now]
               /\ conn'[req'[r].client].usable
          ELSE /\ req'[r].pc = "connecting"
               /\ req'[r].client \notin DOMAIN conn
               /\ req'[r].client > created
               /\ key \notin DOMAIN connectionPool'
     /\ (req[r].pc = "connecting" /\ req'[r].pc = "opening") =>
          /\ req'[r].client = req[r].client
          /\ conn'[req[r].client].usable
          /\ key \in DOMAIN connectionPool'
          /\ connectionPool'[key] = [client |-> req[r].client, lastUsed |-> now]
C2_Acquire == [][\A r \in Reqs : C2_AcquireStep(r)]_vars

\* C2 witness: a request with the second config holds a client although its
\* own login would be refused: the pooled client was returned, and touched
\* after the clock had moved.
C2_Witness ==
  \E r \in Reqs :
    /\ req[r].pc = "opening" /\ req[r].cfg = 2
    /\ now > StartTime
    /\ connectionPool[KeyOfReq(req[r])] = [client |-> req[r].client, lastUsed |-> now]

\* C3 (as claimed): two requests in flight never hold the same client.
C3_Exclusive ==
  \A r1, r2 \in Reqs :
    (r1 # r2 /\ Borrowing(r1) /\ Borrowing(r2)) => req[r1].client # req[r2].client

\* C4 (as claimed): every client that connected, is still usable, and has
\* neither been logged out nor closed, is the entry of its key.
Live(h) ==
  /\ conn[h].state = "open" /\ conn[h].usable
  /\ ~conn[h].logout /\ ~conn[h].closed
C4_NoLeak ==
  \A h \in DOMAIN conn :
    Live(h) => /\ KeyOf(conn[h].cfg) \in DOMAIN connectionPool
               /\ connectionPool[KeyOf(conn[h].cfg)].client = h

\* C5: one run of the cleanup leaves exactly the entries whose client is
\* usable and whose idle time is at most CONNECTION_MAX_IDLE, unchanged.
Kept(k) ==
  /\ conn[connectionPool[k].client].usable
  /\ now - connectionPool[k].lastUsed <= CONNECTION_MAX_IDLE
C5_Sweep ==
  [][PoolCleanup =>
       connectionPool' =
         [k \in {x \in DOMAIN connectionPool : Kept(x)} |-> connectionPool[k]]]_vars

\* C5 witness: the only client ever created is borrowed, logged out and
\* gone from the pool, which only the cleanup's idle branch does.
C5_Witness ==
  /\ created = 1 /\ Borrowing(1) /\ req[1].client = 1
  /\ conn[1].logout /\ conn[1].usable
  /\ DOMAIN connectionPool = {}

\* C6: when a request fails on its client with ECONNRESET, ETIMEDOUT or
\* ENOTFOUND, the client is in no pool entry when the request returns; and
\* a client enters the pool only in the step in which its connect resolves,
\* so that a client once dropped is never pooled, and never returned, again.
TransportCodes == {"ECONNRESET", "ETIMEDOUT", "ENOTFOUND"}
C6_Step ==
  /\ \A r \in Reqs :
       (/\ Borrowing(r) /\ req'[r].pc = "done"
        /\ \E e \in TimedOpErrors :
             /\ e.code \in TransportCodes
             /\ req'[r].out = handleError(e, req[r].op))
         => ~PooledAfter(req[r].client)
  /\ connectionPool' # connectionPool =>
       \A h \in PoolClients(connectionPool') :
         ~Pooled(h) => /\ h \in DOMAIN conn
                       /\ conn[h].state = "connecting" /\ conn'[h].state = "open"
  /\ \A r \in Reqs :
       (req[r].pc = "idle" /\ req'[r].pc = "opening") => Pooled(req'[r].client)
C6_Poisoned == [][C6_Step]_vars

\* C6 witness: a request has failed with ECONNRESET and its client, logged
\* out, is no longer pooled.
C6_Witness ==
  \E r \in Reqs :
    /\ req[r].pc = "done" /\ req[r].out.message = "read ECONNRESET"
    /\ \E h \in DOMAIN conn : conn[h].logout /\ ~Pooled(h)

\* C7: a failed connect leaves its client out of the pool, adds no entry,
\* and the request returns a failure envelope.
C7_Step ==
  \A r \in Reqs :
    (req[r].pc = "connecting" /\ req'[r].pc = "done") =>
      /\ ~PooledAfter(req[r].client)
      /\ PoolClients(connectionPool') \subseteq PoolClients(connectionPool)
      /\ ~req'[r].out.success
      /\ req'[r].out.type \in {"NETWORK_ERROR", "AUTHENTICATION_ERROR"}
C7_FailedConnect == [][C7_Step]_vars

\* C7 witness: a login was refused and the pool is empty.
C7_Witness ==
  \E r \in Reqs :
    /\ req[r].pc = "done" /\ req[r].out.type = "AUTHENTICATION_ERROR"
    /\ DOMAIN connectionPool = {}

\* C8 (as claimed): releaseConnection changes at most the lastUsed of the
\* entry that holds the released client, and after a successful request the
\* borrowed client is still pooled and usable.
C8_Frame ==
  \A c \in CfgIds, h \in DOMAIN conn :
    LET after == releaseConnection(connectionPool, Configs[c], h, now)
    IN /\ DOMAIN after = DOMAIN connectionPool
       /\ \A k \in DOMAIN after :
            /\ after[k].client = connectionPool[k].client
            /\ after[k].lastUsed # connectionPool[k].lastUsed =>
                 (k = KeyOf(c) /\ connectionPool[k].client = h)
C8_Step ==
  \A r \in Reqs :
    (req[r].pc = "fetching" /\ req'[r].pc = "done" /\ req'[r].out.success) =>
      /\ PooledAfter(req[r].client)
      /\ conn'[req[r].client].usable
C8_Release == [][C8_Frame /\ C8_Step]_vars

\* C9 (as claimed): the client a request holds was logged in with the
\* password of the request's own credentials.
C9_OwnPassword ==
  \A r \in Reqs :
    Borrowing(r) =>
      Configs[conn[req[r].client].cfg].imap_pass = Configs[req[r].cfg].imap_pass

----------------------------------------------------------------------------
(* SpecCodec: one session is encoded into a token and the token decoded.   *)

MaxText == 2

\* a, double quote, backslash, line feed, e acute, euro sign
CodecChars == {97, 34, 92, 10, 233, 8364}
Texts == UNION {[1..n -> CodecChars] : n \in 1..MaxText}

Key_tempEmailAddress == <<116, 101, 109, 112, 69, 109, 97, 105, 108, 65, 100, 100, 114, 101, 115, 115>>
Key_imapConfig == <<105, 109, 97, 112, 67, 111, 110, 102, 105, 103>>
Key_timestamp == <<116, 105, 109, 101, 115, 116, 97, 109, 112>>
Key_domain == <<100, 111, 109, 97, 105, 110>>
Key_imap_server == <<105, 109, 97, 112, 95, 115, 101, 114, 118, 101, 114>>
Key_imap_port == <<105, 109, 97, 112, 95, 112, 111, 114, 116>>
Key_imap_user == <<105, 109, 97, 112, 95, 117, 115, 101, 114>>
Key_imap_pass == <<105, 109, 97, 112, 95, 112, 97, 115, 115>>
Key_imap_dir == <<105, 109, 97, 112, 95, 100, 105, 114>>
Text_xc == <<120, 46, 99>>
Text_imapx == <<105, 109, 97, 112, 46, 120>>
Text_u1 == <<117, 49, 64, 120, 46, 99>>
Text_INBOX == <<73, 78, 66, 79, 88>>

Optional(present, member) == IF present THEN <<member>> ELSE <<>>

\* ImapConfig as the route read it from the request body
ImapConfigValue(pass, hasPort, hasDir) ==
  JObj(<<Member(Key_domain, JStr(Text_xc)),
         Member(Key_imap_server, JStr(Text_imapx))>>
       \o Optional(hasPort, Member(Key_imap_port, JNum(DefaultPort)))
       \o <<Member(Key_imap_user, JStr(Text_u1)),
            Member(Key_imap_pass, JStr(pass))>>
       \o Optional(hasDir, Member(Key_imap_dir, JStr(Text_INBOX))))

\* ImapSession as generateAccessToken builds it; tokens issued before the
\* timestamp was introduced carry none.
ImapSession(tempEmailAddress, imapConfig, hasTimestamp, timestamp) ==
  JObj(<<Member(Key_tempEmailAddress, JStr(tempEmailAddress)),
         Member(Key_imapConfig, imapConfig)>>
       \o Optional(hasTimestamp, Member(Key_timestamp, JNum(timestamp))))

Sessions ==
  {ImapSession(addr, ImapConfigValue(pass, hasPort, hasDir), hasTimestamp, StartTime) :
     addr \in {Addr_a}, pass \in Texts,
     hasPort \in BOOLEAN, hasDir \in BOOLEAN, hasTimestamp \in BOOLEAN}

\* IMAP_ENCRYPTION_KEY values: k, k followed by e acute
Modes ==
  {[encrypt |-> FALSE, secretKey |-> <<>>, iv |-> <<>>],
   [encrypt |-> TRUE, secretKey |-> <<107>>, iv |-> [i \in 1..16 |-> 0]],
   [encrypt |-> TRUE, secretKey |-> <<107, 233>>, iv |-> [i \in 1..16 |-> (37 * i) % 256]]}

NotEncoded == [stage |-> "none", token |-> <<>>, result |-> ParseError]

InitCodec ==
  /\ connectionPool = [k \in {} |-> 0]
  /\ conn = [h \in {} |-> 0]
  /\ created = 0
  /\ req = [r \in Reqs |-> IdleReq]
  /\ now = StartTime
  /\ ticks = 0
  /\ listIn = <<>> /\ listOut = <<>>
  /\ \E session \in Sessions : \E mode \in Modes :
       codecIn = [session |-> session, mode |-> mode]
  /\ codecOut = NotEncoded

\* generateAccessToken after the session is built
EncodeSession ==
  /\ codecOut.stage = "none"
  /\ codecOut' =
       [codecOut EXCEPT
          !.stage = "encoded",
          !.token = IF codecIn.mode.encrypt
                    THEN encryptImapSession(codecIn.session, codecIn.mode.secretKey,
                                            codecIn.mode.iv)
                    ELSE encodeImapSession(codecIn.session)]
  /\ UNCHANGED <<poolVars, listVars, codecIn>>

\* parseAccessToken up to the parsed session
DecodeSession ==
  /\ codecOut.stage = "encoded"
  /\ codecOut' =
       [codecOut EXCEPT
          !.stage = "decoded",
          !.result = IF codecIn.mode.encrypt
                     THEN decryptImapSession(codecOut.token, codecIn.mode.secretKey)
                     ELSE decodeImapSession(codecOut.token)]
  /\ UNCHANGED <<poolVars, listVars, codecIn>>

NextCodec == EncodeSession \/ DecodeSession

SpecCodec == InitCodec /\ [][NextCodec]_vars

\* C10: in plaintext mode decodeImapSession(encodeImapSession(S)) is S, and
\* in encrypted mode decryptImapSession(encryptImapSession(S, k), k) is S,
\* for every session S and every secret k: whenever a token has been
\* decoded, decoding succeeded and the session read is the session encoded.
C10_RoundTrip ==
  codecOut.stage = "decoded" =>
    /\ codecOut.result.ok
    /\ codecOut.result.v = codecIn.session

\* an encrypted token of a session whose password holds a double quote and a
\* character outside ASCII has been decoded
C10_Witness ==
  /\ codecOut.stage = "decoded"
  /\ codecIn.mode.encrypt
  /\ \E m \in 1..Len(codecIn.session.o[2].v.o) :
       /\ codecIn.session.o[2].v.o[m].k = Key_imap_pass
       /\ codecIn.session.o[2].v.o[m].v.s = <<34, 8364>>
  /\ codecOut.result.v = codecIn.session

----------------------------------------------------------------------------
(* Access tokens (imap.ts:899-986).  The environment is                    *)
(* [encrypt, secretKey, ttl]: IMAP_ENCRYPT_TOKEN === 'true', the value of  *)
(* IMAP_ENCRYPTION_KEY (empty when unset: both are falsy) and              *)
(* parseInt(IMAP_TOKEN_TTL_HOURS || '0').                                  *)

HOUR_MS == 60 * 60 * 1000

\* The strings of Configs as code points.
Codes(str) ==
  CASE str = "imap.x" -> Text_imapx
    [] str = "u1@x.c" -> Text_u1
    [] str = "u2@x.c" -> <<117, 50, 64, 120, 46, 99>>
    [] str = "p1" -> <<112, 49>>
    [] str = "p2" -> <<112, 50>>
    [] str = "INBOX" -> Text_INBOX
    [] str = "Sent" -> <<83, 101, 110, 116>>

\* request.imap of createEmail for the c-th of Configs
ConfigValue(c) ==
  JObj(<<Member(Key_domain, JStr(Text_xc)),
         Member(Key_imap_server, JStr(Codes(Configs[c].imap_server)))>>
       \o Optional(Configs[c].imap_port # 0,
                   Member(Key_imap_port, JNum(Configs[c].imap_port)))
       \o <<Member(Key_imap_user, JStr(Codes(Configs[c].imap_user))),
            Member(Key_imap_pass, JStr(Codes(Configs[c].imap_pass))),
            Member(Key_imap_dir, JStr(Codes(Configs[c].imap_dir)))>>)

\* value[key] of a parsed JSON value: [found, v]
RECURSIVE Lookup(_, _, _)
Lookup(members, key, i) ==
  IF i > Len(members) THEN [found |-> FALSE, v |-> JNum(0)]
  ELSE IF members[i].k = key THEN [found |-> TRUE, v |-> members[i].v]
  ELSE Lookup(members, key, i + 1)
Property(value, key) ==
  IF value.t = "object" THEN Lookup(value.o, key, 1)
  ELSE [found |-> FALSE, v |-> JNum(0)]

\* !value for what a property read returned
Falsy(p) ==
  \/ ~p.found
  \/ p.v.t = "number" /\ p.v.n = 0
  \/ p.v.t = "string" /\ p.v.s = <<>>

Issued(token) == [ok |-> TRUE, token |-> token, message |-> ""]
Thrown(message) == [ok |-> FALSE, token |-> <<>>, message |-> message]

\* (a generator that falls back to the plain encoding without a key)
generateAccessToken_Fallback(env, c, tempEmailAddress, t, iv) ==
  IF env.encrypt /\ env.secretKey # <<>>
  THEN Issued(encryptImapSession(
                ImapSession(tempEmailAddress, ConfigValue(c), TRUE, t),
                env.secretKey, iv))
  ELSE Issued(encodeImapSession(ImapSession(tempEmailAddress, ConfigValue(c), TRUE, t)))

\* generateAccessToken at time t, iv the bytes randomBytes(16) returns
generateAccessToken(env, c, tempEmailAddress, t, iv) ==
  IF env.encrypt
  THEN IF env.secretKey = <<>>
       THEN Thrown("IMAP_ENCRYPTION_KEY is not set")
       ELSE Issued(encryptImapSession(
                     ImapSession(tempEmailAddress, ConfigValue(c), TRUE, t),
                     env.secretKey, iv))
  ELSE Issued(encodeImapSession(ImapSession(tempEmailAddress, ConfigValue(c), TRUE, t)))

\* (a check that also rejects the token whose age is exactly the ttl)
validateTokenExpiration_AtLimit(session, ttlHours, t) ==
  /\ ttlHours > 0
  /\ ~Falsy(Property(session, Key_timestamp))
  /\ t - Property(session, Key_timestamp).v.n >= ttlHours * HOUR_MS

\* validateTokenExpiration: TRUE when it throws the expiry error
validateTokenExpiration(session, ttlHours, t) ==
  /\ ttlHours > 0
  /\ ~Falsy(Property(session, Key_timestamp))
  /\ t - Property(session, Key_timestamp).v.n > ttlHours * HOUR_MS

Rejected(message) == [ok |-> FALSE, session |-> JNum(0), message |-> message]
Accepted(session) == [ok |-> TRUE, session |-> session, message |-> ""]

\* the try block of parseAccessToken, decoded what the codec returned
Validate(decoded, env, t) ==
  IF ~decoded.ok THEN Rejected("invalid accessToken")
  ELSE IF validateTokenExpiration(decoded.v, env.ttl, t)
  THEN Rejected("accessToken expired")
  ELSE Accepted(decoded.v)

\* parseAccessToken at time t
parseAccessToken(token, env, t) ==
  IF env.encrypt
  THEN IF env.secretKey = <<>> THEN Rejected("invalid accessToken")
       ELSE Validate(decryptImapSession(token, env.secretKey), env, t)
  ELSE Validate(decodeImapSession(token), env, t)

----------------------------------------------------------------------------
(* SpecToken: one caller creates mailboxes and presents tokens, issued,    *)
(* altered or foreign, to getEmails / getEmailContent while the clock      *)
(* advances.  codecIn is the environment; codecOut is                      *)
(*   calls    the calls made so far,                                       *)
(*   issued   the tokens createEmail returned, each with its time,         *)
(*   offered  the token the caller presents next: [kind, token, from],     *)
(*   last     what parseAccessToken made of the token of the request in    *)
(*            progress.                                                    *)

\* The calls the caller makes
MaxCalls == 2

Envs ==
  {[encrypt |-> e.encrypt, secretKey |-> e.secretKey, ttl |-> ttl] :
     e \in {[encrypt |-> FALSE, secretKey |-> <<>>],
            [encrypt |-> TRUE, secretKey |-> <<>>],
            [encrypt |-> TRUE, secretKey |-> <<107>>]},
     ttl \in {-1, 0, 1}}

\* The clock of SpecToken moves by a millisecond or by an hour.
TokenTicks == {1, HOUR_MS}

\* randomBytes(16) of the k-th call: fresh bytes every time
RandomBytes(k) == [i \in 1..16 |-> (37 * i + k) % 256]

NothingOffered == [kind |-> "none", token |-> <<>>, from |-> 0]
NothingParsed ==
  [kind |-> "none", from |-> 0, ok |-> FALSE, message |-> "", cfg |-> 0,
   addr |-> <<>>, timestamp |-> 0]

\* Tokens no createEmail of this process returned: "!!", "e30=" (the
\* encoding of {}), and the token of a session without timestamp.
Token_Garbage == <<33, 33>>
Token_EmptyObject == <<101, 51, 48, 61>>
LegacySession == ImapSession(Addr_a, ConfigValue(1), FALSE, 0)
ForeignTokens(env) ==
  {Token_Garbage, Token_EmptyObject,
   IF env.encrypt /\ env.secretKey # <<>>
   THEN encryptImapSession(LegacySession, env.secretKey, RandomBytes(0))
   ELSE encodeImapSession(LegacySession)}

InitToken ==
  /\ connectionPool = [k \in {} |-> 0]
  /\ conn = [h \in {} |-> 0]
  /\ created = 0
  /\ req = [r \in Reqs |-> IdleReq]
  /\ now = StartTime
  /\ ticks = 0
  /\ listIn = <<>> /\ listOut = <<>>
  /\ codecIn \in Envs
  /\ codecOut = [calls |-> 0, issued |-> <<>>, offered |-> NothingOffered,
                 last |-> NothingParsed]

\* What is wrong with request.imap of a createEmail call: nothing, the
\* field itself is missing, a required field is missing, imap_user has no
\* '@' or no '.' after it, or imap_port is below 1 or above 65535.
Flaws == {"none", "no_imap", "no_domain", "no_server", "no_user", "no_pass",
          "user_no_at", "user_no_dot", "port_negative", "port_high"}

\* request.imap for the c-th of Configs with the flaw: a missing string is
\* the empty one and a missing port is 0 (all are falsy).
RequestImap(c, flaw) ==
  [present |-> flaw # "no_imap",
   domain |-> IF flaw = "no_domain" THEN "" ELSE "x.c",
   imap_server |-> IF flaw = "no_server" THEN "" ELSE Configs[c].imap_server,
   imap_user |-> CASE flaw = "no_user" -> <<>>
                   [] flaw = "user_no_at" -> <<117, 49, 120, 46, 99>>
                   [] flaw = "user_no_dot" -> <<117, 49, 64, 120, 99>>
                   [] OTHER -> Codes(Configs[c].imap_user),
   imap_pass |-> IF flaw = "no_pass" THEN "" ELSE Configs[c].imap_pass,
   imap_port |-> CASE flaw = "port_negative" -> 0 - 1
                   [] flaw = "port_high" -> 65536
                   [] OTHER -> Configs[c].imap_port]

\* /^[^\s@]+@[^\s@]+\.[^\s@]+$/.test(email)                (imap.ts:1015-1017)
isValidEmail(email) ==
  LET plain(i) == email[i] # 64 /\ email[i] \notin {9, 10, 11, 12, 13, 32}
  IN \E at \in 2..Len(email) :
       /\ email[at] = 64
       /\ \A i \in (1..Len(email)) \ {at} : plain(i)
       /\ \E dot \in (at + 2)..(Len(email) - 1) : email[dot] = 46

\* (a validation that accepts every port)
validateImapConfig_AnyPort(config, isMine) ==
  IF ~isMine /\ config.domain = ""
  THEN [ok |-> FALSE, message |-> "imap.domain is required"]
  ELSE IF config.imap_server = ""
  THEN [ok |-> FALSE, message |-> "imap.imap_server is required"]
  ELSE IF config.imap_user = <<>>
  THEN [ok |-> FALSE, message |-> "imap.imap_user is required"]
  ELSE IF config.imap_pass = ""
  THEN [ok |-> FALSE, message |-> "imap.imap_pass is required"]
  ELSE IF ~isValidEmail(config.imap_user)
  THEN [ok |-> FALSE, message |-> "imap.imap_user must be a valid address"]
  ELSE [ok |-> TRUE, message |-> ""]

\* validateImapConfig: whether it returns, and the message it throws
validateImapConfig(config, isMine) ==
  IF ~isMine /\ config.domain = ""
  THEN [ok |-> FALSE, message |-> "imap.domain is required"]
  ELSE IF config.imap_server = ""
  THEN [ok |-> FALSE, message |-> "imap.imap_server is required"]
  ELSE IF config.imap_user = <<>>
  THEN [ok |-> FALSE, message |-> "imap.imap_user is required"]
  ELSE IF config.imap_pass = ""
  THEN [ok |-> FALSE, message |-> "imap.imap_pass is required"]
  ELSE IF ~isValidEmail(config.imap_user)
  THEN [ok |-> FALSE, message |-> "imap.imap_user must be a valid address"]
  ELSE IF config.imap_port # 0
            /\ (config.imap_port < 1 \/ config.imap_port > 65535)
  THEN [ok |-> FALSE, message |-> "imap.imap_port must be in 1-65535"]
  ELSE [ok |-> TRUE, message |-> ""]

\* `if (!request.imap) throw ...`, then validateImapConfig(request.imap,
\* request.isMine)
Checked(imap, isMine) ==
  IF ~imap.present
  THEN [ok |-> FALSE, message |-> "imap is required for provider imap"]
  ELSE validateImapConfig(imap, isMine)

\* createEmail up to its first suspension: the config is validated and
\* testImapConnection starts to connect, or the validation throws and the
\* failure envelope is returned.  addr is the address the call will
\* return: `${username}@${domain}` or, with isMine, imap_user.
CreateCall(c, flaw, isMine, addr) ==
  /\ req[1].pc = "idle"
  /\ codecOut.offered.kind = "none"
  /\ codecOut.calls < MaxCalls
  /\ req' = [req EXCEPT ![1] =
               IF Checked(RequestImap(c, flaw), isMine).ok
               THEN [IdleReq EXCEPT !.pc = "testing", !.op = "createEmail",
                                    !.cfg = c, !.flaw = flaw, !.addr = addr]
               ELSE Done(handleError(
                      Err("", Checked(RequestImap(c, flaw), isMine).message, {}),
                      "createEmail"))]
  /\ codecOut' = [codecOut EXCEPT !.calls = @ + 1]
  /\ UNCHANGED <<connectionPool, conn, created, now, ticks, listVars, codecIn>>

\* The caller asks for a generated address (isMine is not set).
CreateBegin(c, flaw, addr) == CreateCall(c, flaw, FALSE, addr)

\* The caller asks for its own mailbox: tempEmailAddress =
\* request.imap.imap_user                                 (imap.ts:107-112)
CreateMine(c, flaw) ==
  CreateCall(c, flaw, TRUE, RequestImap(c, flaw).imap_user)

\* username and domain of the reply: the parts of the address before and
\* after its '@' (imap_user.split('@') with isMine, and the address is
\* `${username}@${domain}` without).
emailParts(addr) ==
  LET ats == {i \in 1..Len(addr) : addr[i] = 64} \cup {Len(addr) + 1}
      first == CHOOSE i \in ats : \A j \in ats : i <= j
      later == {i \in ats : i > first} \cup {Len(addr) + 1}
      second == CHOOSE i \in later : \A j \in later : i <= j
  IN [username |-> SubSeq(addr, 1, first - 1),
      domain |-> IF SubSeq(addr, first + 1, second - 1) = <<>>
                 THEN <<120, 46, 99>>     \* request.imap.domain, "x.c"
                 ELSE SubSeq(addr, first + 1, second - 1)]

\* data of the reply of createEmail
CreateEmailResponse(addr, accessToken) ==
  [address |-> addr, username |-> emailParts(addr).username,
   domain |-> emailParts(addr).domain, accessToken |-> accessToken]

\* (a createEmail that lets the error of generateAccessToken escape)
Created_Throws(r, generated) ==
  IF generated.ok
  THEN Done(SuccessEnvelope("createEmail",
              <<CreateEmailResponse(req[r].addr, generated.token)>>))
  ELSE Done(NoEnvelope)

\* What createEmail returns once the test connection has logged out.
Created(r, generated) ==
  IF generated.ok
  THEN Done(SuccessEnvelope("createEmail",
              <<CreateEmailResponse(req[r].addr, generated.token)>>))
  ELSE Done(handleError(Err("", generated.message, {}), "createEmail"))

\* connect and logout of the test client resolved; its close listener may
\* (emitted) have run removeConnection before createEmail goes on to
\* generateAccessToken and returns.
Tested(emitted, generated) ==
  LET cfg == Configs[req[1].cfg]
      rm == IF emitted THEN removeConnection(connectionPool, conn, cfg)
            ELSE [pool |-> connectionPool, conn |-> conn]
  IN /\ Commit(rm.pool, rm.conn, [req EXCEPT ![1] = Created(1, generated)])
     /\ codecOut' =
          IF generated.ok
          THEN [codecOut EXCEPT
                  !.issued = Append(@, [token |-> generated.token, at |-> now,
                                        cfg |-> req[1].cfg, addr |-> req[1].addr])]
          ELSE codecOut

CreateTested(emitted) ==
  /\ req[1].pc = "testing"
  /\ LoginAccepted(Configs[req[1].cfg])
  /\ Tested(emitted, generateAccessToken(codecIn, req[1].cfg, req[1].addr, now,
                                         RandomBytes(Len(codecOut.issued) + 1)))
  /\ UNCHANGED <<created, now, ticks, listVars, codecIn>>

\* connect of the test client rejected
CreateFail(e) ==
  LET cfg == Configs[req[1].cfg]
  IN /\ req[1].pc = "testing"
     /\ e \in AuthErrors <=> ~LoginAccepted(cfg)
     /\ req' = [req EXCEPT ![1] = Done(handleError(e, "createEmail"))]
     /\ UNCHANGED <<connectionPool, conn, created, now, ticks, listVars, codecVars>>

\* The caller takes the i-th token it was given.
OfferIssued(i) ==
  /\ codecOut.offered.kind = "none"
  /\ codecOut.calls < MaxCalls
  /\ req[1].pc = "idle"
  /\ i \in 1..Len(codecOut.issued)
  /\ codecOut' = [codecOut EXCEPT
                    !.offered = [kind |-> "issued", token |-> codecOut.issued[i].token,
                                 from |-> i]]
  /\ UNCHANGED <<poolVars, listVars, codecIn>>

\* The positions of the token that may be altered: the token of the first
\* call, encrypted, without a lifetime, before the clock has moved or a
\* connection was made.
Positions ==
  IF /\ codecOut.offered.kind = "none" /\ req[1].pc = "idle" /\ codecIn.encrypt
     /\ codecIn.ttl = 0
     /\ codecOut.calls = 1 /\ codecOut.calls < MaxCalls
     /\ Len(codecOut.issued) = 1 /\ ticks = 0 /\ created = 0
  THEN 1..Len(codecOut.issued[1].token) ELSE {}

\* The characters put in place of c: for a digit the digits whose value
\* differs from its value in the lowest bit or in the highest, and "=";
\* for "=" the digit A.
Replacements(c) ==
  LET v == Base64Value(c)
  IN IF v = 64 THEN <<65>>
     ELSE <<Base64Char(IF v % 2 = 0 THEN v + 1 ELSE v - 1),
            Base64Char((v + 32) % 64), 61>>

\* The caller replaces one character of the encrypted token it was given.
Tamper(pos, kind) ==
  /\ pos \in Positions
  /\ kind \in DOMAIN Replacements(codecOut.issued[1].token[pos])
  /\ codecOut' = [codecOut EXCEPT
                    !.offered = [kind |-> "altered",
                                 token |-> [codecOut.issued[1].token EXCEPT
                                              ![pos] = Replacements(@)[kind]],
                                 from |-> 1]]
  /\ UNCHANGED <<poolVars, listVars, codecIn>>

\* The caller takes a token from elsewhere, or none at all (before it has
\* created a mailbox).
Strangers ==
  IF /\ codecOut.offered.kind = "none" /\ req[1].pc = "idle"
     /\ codecOut.issued = <<>> /\ codecOut.calls < MaxCalls
  THEN ForeignTokens(codecIn) \cup {<<>>} ELSE {}

OfferForeign(token) ==
  /\ token \in Strangers
  /\ codecOut' = [codecOut EXCEPT
                    !.offered = [kind |-> "foreign", token |-> token, from |-> 0]]
  /\ UNCHANGED <<poolVars, listVars, codecIn>>

\* The config of Configs a parsed session carries, 0 if it carries none.
ConfigOf(session) ==
  LET p == Property(session, Key_imapConfig)
  IN IF p.found /\ \E c \in CfgIds : ConfigValue(c) = p.v
     THEN CHOOSE c \in CfgIds : ConfigValue(c) = p.v
     ELSE 0

\* What the request keeps of the token: whether parseAccessToken returned,
\* the message it threw, and the session it returned.
Outcome(offered, parsed) ==
  [kind |-> offered.kind, from |-> offered.from,
   ok |-> offered.token # <<>> /\ parsed.ok,
   message |-> IF offered.token = <<>> THEN "accessToken is required"
               ELSE parsed.message,
   cfg |-> IF parsed.ok THEN ConfigOf(parsed.session) ELSE 0,
   addr |-> IF parsed.ok /\ Property(parsed.session, Key_tempEmailAddress).found
            THEN Property(parsed.session, Key_tempEmailAddress).v.s ELSE <<>>,
   timestamp |-> IF parsed.ok /\ Property(parsed.session, Key_timestamp).found
                 THEN Property(parsed.session, Key_timestamp).v.n ELSE 0]

\* (a handler that clears the pool when it rejects a token)
Presented_Evicting(op, emailId, outcome) ==
  LET failed(message) ==
        /\ req' = [req EXCEPT ![1] = Done(handleError(Err("", message, {}), op))]
        /\ connectionPool' = [k \in {} |-> 0]
        /\ UNCHANGED <<conn, created>>
  IN /\ IF ~outcome.ok THEN failed(outcome.message)
        ELSE IF outcome.cfg = 0
        THEN failed("Cannot read properties of undefined (reading 'imap_server')")
        ELSE Acquire(1, Call(op, outcome.cfg, outcome.addr, emailId))
     /\ codecOut' = [codecOut EXCEPT !.calls = @ + 1, !.offered = NothingOffered,
                                     !.last = outcome]

\* getEmails / getEmailContent up to the first suspension: the token is
\* required and parsed, then getConnection is called.
Presented(op, emailId, outcome) ==
  LET failed(message) ==
        /\ req' = [req EXCEPT ![1] = Done(handleError(Err("", message, {}), op))]
        /\ UNCHANGED <<connectionPool, conn, created>>
  IN /\ IF ~outcome.ok THEN failed(outcome.message)
        ELSE IF outcome.cfg = 0
        THEN failed("Cannot read properties of undefined (reading 'imap_server')")
        ELSE Acquire(1, Call(op, outcome.cfg, outcome.addr, emailId))
     /\ codecOut' = [codecOut EXCEPT !.calls = @ + 1, !.offered = NothingOffered,
                                     !.last = outcome]

\* (Altered and foreign tokens are presented to getEmails only.)
Present(op, emailId) ==
  /\ codecOut.offered.kind # "none"
  /\ codecOut.calls < MaxCalls
  /\ codecOut.offered.kind = "issued" \/ op = "getEmails"
  /\ req[1].pc = "idle"
  /\ Presented(op, emailId,
               Outcome(codecOut.offered,
                       parseAccessToken(codecOut.offered.token, codecIn, now)))
  /\ UNCHANGED <<now, ticks, listVars, codecIn>>

\* The caller has the envelope.
TokenReturn ==
  /\ Deliver(1)
  /\ codecOut' = [codecOut EXCEPT !.last = NothingParsed]
  /\ UNCHANGED <<now, ticks, listVars, codecIn>>

\* (The clock is watched from the first token on.)
TokenTick(d) ==
  /\ ticks < MaxTicks
  /\ codecOut.issued # <<>>
  /\ req[1].pc = "idle"
  /\ codecOut.offered.kind = "none"
  /\ now' = now + d
  /\ ticks' = ticks + 1
  /\ UNCHANGED <<connectionPool, conn, created, req, listVars, codecVars>>

NextToken ==
  \/ \E c \in {1, 2}, addr \in {Addr_a, Addr_sa} : CreateBegin(c, "none", addr)
  \/ \E emitted \in BOOLEAN : CreateTested(emitted)
  \/ \E e \in ConnectErrors : CreateFail(e)
  \/ \E i \in 1..MaxCalls : OfferIssued(i)
  \/ \E pos \in Positions, kind \in 1..3 : Tamper(pos, kind)
  \/ \E token \in Strangers : OfferForeign(token)
  \/ \E op \in {"getEmails"}, emailId \in {0} : Present(op, emailId)
  \/ \E emailId \in {1} : Present("getEmailContent", emailId)
  \/ ConnectOk(1)
  \/ \E e \in ConnectErrors, emitted \in BOOLEAN : ConnectFail(1, e, emitted)
  \/ MailboxOpenOk(1)
  \/ \E e \in OpErrors : OpFail(1, e)
  \/ FetchDone(1)
  \/ TokenReturn
  \/ \E d \in TokenTicks : TokenTick(d)

SpecToken == InitToken /\ [][NextToken]_vars

\* createEmail alone, called with valid and with flawed configurations.
NextCreate ==
  \/ \E c \in {1, 2}, flaw \in Flaws, addr \in {Addr_a, Addr_sa} :
        CreateBegin(c, flaw, addr)
  \/ \E emitted \in BOOLEAN : CreateTested(emitted)
  \/ \E e \in ConnectErrors : CreateFail(e)
  \/ TokenReturn

SpecCreate == InitToken /\ [][NextCreate]_vars

\* The caller creates its own mailbox (isMine) and lists it with the token
\* it was given.
NextMine ==
  \/ \E c \in {1, 4}, flaw \in {"none", "no_domain", "no_user"} : CreateMine(c, flaw)
  \/ \E emitted \in BOOLEAN : CreateTested(emitted)
  \/ \E e \in ConnectErrors : CreateFail(e)
  \/ \E i \in 1..MaxCalls : OfferIssued(i)
  \/ Present("getEmails", 0)
  \/ ConnectOk(1)
  \/ \E e \in ConnectErrors, emitted \in BOOLEAN : ConnectFail(1, e, emitted)
  \/ MailboxOpenOk(1)
  \/ \E e \in OpErrors : OpFail(1, e)
  \/ FetchDone(1)
  \/ TokenReturn
  \/ \E d \in TokenTicks : TokenTick(d)

SpecMine == InitToken /\ [][NextMine]_vars

----------------------------------------------------------------------------
(* Properties of the access tokens, checked under SpecToken.               *)

\* C11: in encryption mode a token of createEmail with one character
\* changed is never accepted: parseAccessToken throws the invalid-token
\* error for it and returns no session.
C11_TamperRejected ==
  codecOut.last.kind = "altered" =>
    ~codecOut.last.ok /\ codecOut.last.message = "invalid accessToken"

\* The age, at the time it is parsed, of the issued token presented last
LastAge == now - codecOut.issued[codecOut.last.from].at

\* C12: with a lifetime of T hours, T > 0, parseAccessToken rejects a token
\* of createEmail with the expiry error, which is not the invalid-token
\* error, exactly when it is parsed more than T hours after it was stamped;
\* with T <= 0, and for a token without timestamp, no token is rejected for
\* its age.
C12_Expiry ==
  /\ codecOut.last.kind = "issued" =>
       /\ codecOut.last.message = "accessToken expired"
            <=> codecIn.ttl > 0 /\ LastAge > codecIn.ttl * HOUR_MS
       /\ codecOut.last.ok
            <=> ~(codecIn.ttl > 0 /\ LastAge > codecIn.ttl * HOUR_MS)
  /\ codecOut.last.kind = "foreign" =>
       codecOut.last.message # "accessToken expired"

\* a token is rejected one millisecond after its hour
C12_Witness ==
  /\ codecOut.last.kind = "issued"
  /\ codecIn.ttl = 1
  /\ LastAge = HOUR_MS + 1
  /\ ~codecOut.last.ok
  /\ codecOut.last.message = "accessToken expired"

\* C13: two tokens of two createEmail calls for the same credentials and
\* the same address are never the same text, with and without encryption.
C13_NeverIdentical ==
  \A i, j \in DOMAIN codecOut.issued :
    /\ i # j
    /\ codecOut.issued[i].cfg = codecOut.issued[j].cfg
    /\ codecOut.issued[i].addr = codecOut.issued[j].addr
    => codecOut.issued[i].token # codecOut.issued[j].token

\* The token offered is an issued one past its lifetime.
OfferedExpired ==
  /\ codecOut.offered.kind = "issued"
  /\ codecIn.ttl > 0
  /\ now - codecOut.issued[codecOut.offered.from].at > codecIn.ttl * HOUR_MS

\* C14: getEmails and getEmailContent reject a token that is no session
\* (not base64 of JSON, or with a failing tag) or is expired, with the
\* invalid-token or the expiry error, before getConnection: no client is
\* created and the pool is as it was.
C14_RejectedBeforeConnecting ==
  [][codecOut.offered.kind # "none" /\ codecOut'.offered.kind = "none" =>
       /\ codecOut.offered.token = Token_Garbage \/ OfferedExpired
            => ~codecOut'.last.ok
       /\ ~codecOut'.last.ok =>
            /\ codecOut'.last.message \in
                 {"invalid accessToken", "accessToken expired",
                  "accessToken is required"}
            /\ req'[1].pc = "done"
            /\ ~req'[1].out.success
            /\ req'[1].out.message = codecOut'.last.message
            /\ connectionPool' = connectionPool
            /\ conn' = conn
            /\ created' = created]_vars

\* a token is rejected while a client is pooled
C14_Witness ==
  /\ codecOut.last.kind # "none"
  /\ ~codecOut.last.ok
  /\ codecOut.last.message = "invalid accessToken"
  /\ req[1].pc = "done"
  /\ DOMAIN connectionPool # {}

C16_AlwaysEnvelope ==
  \A r \in Reqs :
    req[r].pc = "done" =>
      /\ req[r].out.operation \in {"createEmail", "getEmails", "getEmailContent"}
      /\ req[r].out.success => req[r].out.type = "" /\ req[r].out.message = ""
      /\ ~req[r].out.success =>
           /\ req[r].out.type \in Taxonomy
           /\ req[r].out.message # ""
           /\ req[r].out.data = <<>>

\* the mail client failed under getEmailContent and the caller has a failure
\* envelope
C16_Witness ==
  /\ req[1].pc = "done"
  /\ req[1].out.operation = "getEmailContent"
  /\ ~req[1].out.success
  /\ req[1].out.type = "NETWORK_ERROR"

----------------------------------------------------------------------------
(* Properties of the failure envelope (handleError, imap.ts:1032-1095).    *)

\* C19: getEmailContent for an id the server has no message for returns a
\* failure envelope of type API_ERROR with details.
C19_NotFoundIsApiError ==
  [][/\ req[1].pc = "fetching"
     /\ req[1].op = "getEmailContent"
     /\ FetchOne("INBOX", req[1].emailId) = {}
     /\ req'[1].pc = "done"
     /\ ~\E e \in TimedOpErrors : req'[1].out = handleError(e, "getEmailContent")
     => /\ ~req'[1].out.success
        /\ req'[1].out.type = "API_ERROR"
        /\ req'[1].out.details]_vars

\* The type the taxonomy gives a failure of the mail client: refused or
\* timed out connections are network errors, refused credentials
\* authentication errors, a missing mailbox an API error.
Expected(e) ==
  IF e.code \in {"ECONNREFUSED", "ETIMEDOUT"} THEN "NETWORK_ERROR"
  ELSE IF e.code = "AUTHENTICATIONFAILED" THEN "AUTHENTICATION_ERROR"
  ELSE IF e.message = "Mailbox does not exist" THEN "API_ERROR"
  ELSE "UNKNOWN_ERROR"

\* C17: a failure envelope is retryable exactly when its type is
\* NETWORK_ERROR; refused and timed out connections give NETWORK_ERROR,
\* refused credentials AUTHENTICATION_ERROR, a missing mailbox and a missing
\* message API_ERROR, and everything else UNKNOWN_ERROR.
C17_Taxonomy ==
  [][/\ req[1].pc \in {"connecting", "opening", "fetching"}
     /\ req'[1].pc = "done"
     /\ ~req'[1].out.success
     => /\ req'[1].out.retryable <=> req'[1].out.type = "NETWORK_ERROR"
        /\ \A e \in TimedConnectErrors \cup TimedOpErrors :
             req'[1].out = handleError(e, req[1].op)
               => req'[1].out.type = Expected(e)
        /\ /\ req[1].pc = "fetching"
           /\ FetchOne("INBOX", req[1].emailId) = {}
           /\ ~\E e \in TimedOpErrors : req'[1].out = handleError(e, req[1].op)
           => req'[1].out.type = "API_ERROR"]_vars

\* What the mail library and the transport throw
LibraryErrors == TimedConnectErrors \cup TimedOpErrors

\* C18: the message of a failure envelope is never the text of an error of
\* the mail library or of the transport, whatever the type of the envelope.
C18_NoRawText ==
  \A r \in Reqs :
    req[r].pc = "done" /\ ~req[r].out.success =>
      \A e \in LibraryErrors : req[r].out.message # e.message

\* C30 (as claimed): a request that fails because its connection could not
\* be established, or because of a transport error for which it removed the
\* handle from the pool, returns NETWORK_ERROR (retryable) or
\* AUTHENTICATION_ERROR, never UNKNOWN_ERROR.
C30_NetworkOrAuth ==
  [][( \/ req[1].pc = "connecting" /\ req'[1].pc = "done"
       \/ /\ Borrowing(1) /\ req'[1].pc = "done"
          /\ \E e \in TimedOpErrors :
               IsConnectionError(e) /\ req'[1].out = handleError(e, req[1].op) )
     => /\ ~req'[1].out.success
        /\ req'[1].out.type \in {"NETWORK_ERROR", "AUTHENTICATION_ERROR"}
        /\ req'[1].out.type = "NETWORK_ERROR" => req'[1].out.retryable]_vars

----------------------------------------------------------------------------
(* Properties of the connections' listeners and of the sweep *)

\* The client h, connected and not yet closed, emits 'error' or 'close'.
Emits(h) ==
  /\ h \in DOMAIN conn /\ conn[h].state = "open" /\ ~conn[h].closed
  /\ h \notin DOMAIN conn' \/ conn'[h].closed

\* C25 (as claimed): an 'error' or 'close' event of a connection removes
\* only the entry that holds that connection: an entry that holds another
\* client is neither deleted nor is its client logged out.
C25_OwnEntryOnly ==
  [][\A h \in DOMAIN conn :
       Emits(h) =>
         \A k \in DOMAIN connectionPool :
           connectionPool[k].client # h =>
             /\ k \in DOMAIN connectionPool'
             /\ connectionPool'[k].client = connectionPool[k].client
             /\ conn'[connectionPool[k].client].logout
                  = conn[connectionPool[k].client].logout]_vars

\* C28 (as claimed): a run of the sweep neither evicts nor logs out a
\* pooled client that a request in flight has borrowed.
C28_SweepSparesBorrowed ==
  [][PoolCleanup =>
       \A r \in Reqs :
         (Borrowing(r) /\ Pooled(req[r].client)) =>
           /\ PooledAfter(req[r].client)
           /\ conn'[req[r].client].logout = conn[req[r].client].logout]_vars

\* removeConnection logs out the client of the entry it deletes.
RemoveLogsOut ==
  \A c \in CfgIds :
    LET rm == removeConnection(connectionPool, conn, Configs[c])
    IN \A k \in DOMAIN connectionPool \ DOMAIN rm.pool :
         rm.conn[connectionPool[k].client].logout

\* C31 (as claimed): removeConnection and the sweep call logout on the
\* client of every entry they delete, whether the sweep deletes it for its
\* idle time or because it is not usable.
C31_LogoutBeforeDelete ==
  [][/\ RemoveLogsOut
     /\ PoolCleanup =>
          \A k \in DOMAIN connectionPool \ DOMAIN connectionPool' :
            /\ connectionPool[k].client \in DOMAIN conn'
            /\ conn'[connectionPool[k].client].logout]_vars

----------------------------------------------------------------------------
(* Properties of the requests of one account with two folders *)

\* The message names the address among its To, Cc and Bcc, up to case.
Names(m, addr) ==
  \E j \in 1..Len(m.to \o m.cc \o m.bcc) :
    /\ (m.to \o m.cc \o m.bcc)[j] # NoAddress
    /\ SameIgnoringCase((m.to \o m.cc \o m.bcc)[j], addr)

\* The search on the folder finds no message, or none of the found ones is
\* recent and names the address.
NothingToList(path, addr) ==
  \A i \in 1..Len(Folder(path)) :
    \/ ~Names(Folder(path)[i], addr)
    \/ /\ Folder(path)[i].hasDate
       /\ Folder(path)[i].internalDate < now - DAY_MS

\* The envelopes of the errors the mail client throws at a borrowed client.
ClientFailures(operation) == {handleError(e, operation) : e \in OpErrors}

\* A getEmails request that has opened its folder replies, the mail client
\* has thrown nothing, and there is nothing to list.
EmptyReply(r) ==
  /\ req[r].pc = "fetching" /\ req[r].op = "getEmails"
  /\ req'[r].pc = "done"
  /\ req'[r].out \notin ClientFailures("getEmails")
  /\ NothingToList(conn[req[r].client].selected, req[r].addr)

\* the reply is the success envelope with an empty list and total 0
EmptyEnvelope(r) ==
  EmptyReply(r) => /\ req'[r].out.success
                   /\ req'[r].out.data = <<>>
                   /\ req'[r].out.total = 0

\* C23 (as claimed): when the search of a getEmails request finds no
\* message, or every found message is filtered out, the request returns a
\* success envelope with an empty list and total 0, and the handle it
\* borrowed is in the pool afterwards.
C23_EmptyIsSuccess ==
  [][\A r \in Reqs :
       /\ EmptyEnvelope(r)
       /\ EmptyReply(r) => PooledAfter(req[r].client)]_vars

\* C27 (as claimed): the search or fetch whose result a request replies
\* with was executed with the folder of the request's own session selected
\* on the handle.
C27_OwnFolder ==
  [][\A r \in Reqs :
       ( /\ req[r].pc = "fetching" /\ req'[r].pc = "done"
         /\ req'[r].out \notin ClientFailures(req[r].op) )
       => conn[req[r].client].selected = MailboxPath(Configs[req[r].cfg])]_vars

\* C29 (as claimed): getEmailContent with a token for an address returns
\* the content of a message only when the message names that address among
\* its To, Cc or Bcc.
C29_OwnMessagesOnly ==
  [][\A r \in Reqs :
       ( /\ req[r].pc = "fetching" /\ req[r].op = "getEmailContent"
         /\ req'[r].pc = "done" /\ req'[r].out.success )
       => \A m \in FetchOne(conn[req[r].client].selected, req[r].emailId) :
            /\ req'[r].out.data[1].id = m.uid
            /\ Names(m, req[r].addr)]_vars

----------------------------------------------------------------------------
(* Properties of createEmail *)

\* C24: createEmail validates, then probes, then issues the token, and
\* stops at the first failure: a call with a flawed configuration fails
\* without a probe, and the success envelope with the token is returned
\* only by a call whose configuration was valid and whose probe connected
\* and logged in.
C24_Step ==
  /\ (req[1].pc = "idle" /\ req'[1].pc = "done")
       => /\ ~req'[1].out.success
          /\ req'[1].out.operation = "createEmail"
          /\ UNCHANGED <<connectionPool, conn, created>>
          /\ codecOut'.issued = codecOut.issued
  /\ req'[1].pc = "testing" => req'[1].flaw = "none"
  /\ (req'[1].pc = "done" /\ req'[1].out.success)
       => /\ req[1].pc = "testing" /\ req[1].flaw = "none"
          /\ LoginAccepted(Configs[req[1].cfg])
          /\ Len(codecOut'.issued) = Len(codecOut.issued) + 1
  /\ (req[1].pc = "testing" /\ ~LoginAccepted(Configs[req[1].cfg]))
       => /\ ~req'[1].out.success
          /\ codecOut'.issued = codecOut.issued
C24_ValidateProbeIssue == [][C24_Step]_vars

\* C24 witness: after a call that was given a token, a call with a port
\* above 65535 has failed on the validation, and no connection was made.
C24_Witness ==
  /\ req[1].pc = "done" /\ ~req[1].out.success
  /\ req[1].out.message = "imap.imap_port must be in 1-65535"
  /\ Len(codecOut.issued) = 1 /\ created = 0

\* C26 (as claimed): no step of createEmail adds, deletes or replaces a
\* pool entry or logs out a pooled client.
C26_PoolUntouched ==
  [][(req[1].op = "createEmail" \/ req'[1].op = "createEmail")
       => /\ connectionPool' = connectionPool
          /\ \A h \in PoolClients(connectionPool) :
               h \in DOMAIN conn' /\ conn'[h].logout = conn[h].logout]_vars

----------------------------------------------------------------------------
(* The MIME structure of a message (imap.ts:761-859).  A node of            *)
(* bodyStructure is [type, subtype, part, disposition, filename, name,     *)
(* size, id, childNodes]: type, subtype and disposition are sequences of   *)
(* code points, part is the path as a sequence of numbers, filename is     *)
(* dispositionParameters.filename and name is parameters.name.  A missing  *)
(* field is the empty string or sequence or 0 (all falsy), a node without  *)
(* childNodes has the empty sequence of them.                              *)

MaxParts == 3     \* the parts of the multipart at the root of a structure

Text_text == <<116, 101, 120, 116>>
Text_TEXT == <<84, 69, 88, 84>>
Text_plain == <<112, 108, 97, 105, 110>>
Text_html == <<104, 116, 109, 108>>
Text_HTML == <<72, 84, 77, 76>>
Text_csv == <<99, 115, 118>>
Text_textplain == <<116, 101, 120, 116, 47, 112, 108, 97, 105, 110>>
Text_texthtml == <<116, 101, 120, 116, 47, 104, 116, 109, 108>>
Text_multipart == <<109, 117, 108, 116, 105, 112, 97, 114, 116>>
Text_multipart_ == <<109, 117, 108, 116, 105, 112, 97, 114, 116, 47>>
Text_Multipart == <<77, 117, 108, 116, 105, 112, 97, 114, 116>>
Text_mixed == <<109, 105, 120, 101, 100>>
Text_alternative == <<97, 108, 116, 101, 114, 110, 97, 116, 105, 118, 101>>
Text_related == <<114, 101, 108, 97, 116, 101, 100>>
Text_application == <<97, 112, 112, 108, 105, 99, 97, 116, 105, 111, 110>>
Text_pdf == <<112, 100, 102>>
Text_zip == <<122, 105, 112>>
Text_image == <<105, 109, 97, 103, 101>>
Text_png == <<112, 110, 103>>
Text_message == <<109, 101, 115, 115, 97, 103, 101>>
Text_rfc822 == <<114, 102, 99, 56, 50, 50>>
Text_attachment == <<97, 116, 116, 97, 99, 104, 109, 101, 110, 116>>
Text_INLINE == <<73, 78, 76, 73, 78, 69>>
Text_inline == <<105, 110, 108, 105, 110, 101>>

\* A part without a disposition, a file name, a size or an id.
Part(type, subtype, childNodes) ==
  [type |-> type, subtype |-> subtype, part |-> <<>>, disposition |-> <<>>,
   filename |-> "", name |-> "", size |-> 0, id |-> "",
   childNodes |-> childNodes]

\* typeStr.includes('/')
HasSlash(s) == \E i \in 1..Len(s) : s[i] = 47

\* The full MIME type of a node: structure.type when it has a slash, else
\* `${type}/${subtype}`, else the type alone; lower case.
fullType(structure) ==
  LET typeStr == toLowerCase(structure.type)
      subtypeStr == toLowerCase(structure.subtype)
  IN IF HasSlash(typeStr) THEN typeStr
     ELSE IF subtypeStr # <<>> THEN typeStr \o <<47>> \o subtypeStr
     ELSE typeStr

\* (a traversal that descends into every node that has children)
IsMultipart_AnyParent(structure) == structure.childNodes # <<>>

\* fullType.startsWith('multipart/') && Array.isArray(structure.childNodes)
IsMultipart(structure) ==
  /\ Len(fullType(structure)) >= Len(Text_multipart_)
  /\ SubSeq(fullType(structure), 1, Len(Text_multipart_)) = Text_multipart_

\* findBodyPart returns null
Null == <<0 - 1>>
\* structure.part || '1'
PartOr1(structure) == IF structure.part = <<>> THEN <<1>> ELSE structure.part

\* findBodyPart(structure, mimeType); FirstResult is its loop over the
\* child nodes, which returns the first result that is not null.
RECURSIVE findBodyPart(_, _), FirstResult(_, _)
findBodyPart(structure, mimeType) ==
  IF fullType(structure) = toLowerCase(mimeType) THEN PartOr1(structure)
  ELSE IF IsMultipart(structure) THEN FirstResult(structure.childNodes, mimeType)
  ELSE Null
FirstResult(childNodes, mimeType) ==
  IF childNodes = <<>> THEN Null
  ELSE LET result == findBodyPart(Head(childNodes), mimeType)
       IN IF result # Null THEN result
          ELSE FirstResult(Tail(childNodes), mimeType)

\* disposition === 'attachment' || disposition === 'inline' ||
\* dispositionParams.filename || structure.parameters?.name
isAttachment(structure) ==
  \/ toLowerCase(structure.disposition) = Text_attachment
  \/ toLowerCase(structure.disposition) = Text_inline
  \/ structure.filename # ""
  \/ structure.name # ""

\* (a classification that counts every text part as a body)
isTextContent_AnyText(structure) ==
  /\ Len(fullType(structure)) >= Len(Text_text)
  /\ SubSeq(fullType(structure), 1, Len(Text_text)) = Text_text

\* fullType === 'text/plain' || fullType === 'text/html'
isTextContent(structure) ==
  fullType(structure) = Text_textplain \/ fullType(structure) = Text_texthtml

\* The entry pushed for a node when n entries were pushed before it; a
\* generated file name `attachment-${n + 1}` is <<"attachment-", n + 1>>.
Attachment(structure, n) ==
  [id |-> IF structure.part = <<>> THEN <<n + 1>> ELSE structure.part,
   filename |-> IF structure.filename # "" THEN <<structure.filename>>
                ELSE IF structure.name # "" THEN <<structure.name>>
                ELSE <<"attachment-", n + 1>>,
   contentType |-> fullType(structure),
   size |-> structure.size,
   inline |-> (toLowerCase(structure.disposition) = Text_inline),
   contentId |-> structure.id]

\* findAttachments(structure, attachments); AttachmentsOfAll is its loop
\* over the child nodes.
RECURSIVE findAttachments(_, _), AttachmentsOfAll(_, _)
findAttachments(structure, attachments) ==
  LET pushed == IF isAttachment(structure) /\ ~isTextContent(structure)
                THEN Append(attachments, Attachment(structure, Len(attachments)))
                ELSE attachments
  IN IF IsMultipart(structure)
     THEN AttachmentsOfAll(structure.childNodes, pushed)
     ELSE pushed
AttachmentsOfAll(childNodes, attachments) ==
  IF childNodes = <<>> THEN attachments
  ELSE AttachmentsOfAll(Tail(childNodes),
                        findAttachments(Head(childNodes), attachments))

----------------------------------------------------------------------------
(* SpecMime: findBodyPart and findAttachments on bounded structures.       *)

Leaf(type, subtype) == Part(type, subtype, <<>>)

\* The parts a message is made of: bodies in the split and in the full
\* format and in upper case, attachments by disposition, by file name and
\* by name, an inline image, a text body sent as an attachment, a text part
\* of another subtype, and nested parts: alternative bodies, an attached
\* message (no multipart, with a child), a related body with its image, and
\* a multipart that is itself marked as an attachment.
PlainPart == Leaf(Text_text, Text_plain)
HtmlPart == Leaf(Text_TEXT, Text_HTML)
PdfPart ==
  [Leaf(Text_application, Text_pdf) EXCEPT
     !.disposition = Text_attachment, !.filename = "a.pdf", !.size = 9]
ImagePart ==
  [Leaf(Text_image, Text_png) EXCEPT !.disposition = Text_INLINE, !.id = "<i>"]
Parts == {
  PlainPart,
  HtmlPart,
  Leaf(Text_texthtml, <<>>),
  PdfPart,
  ImagePart,
  [Leaf(Text_application, Text_zip) EXCEPT !.name = "b.zip"],
  [PlainPart EXCEPT !.disposition = Text_attachment, !.filename = "n.txt"],
  [Leaf(Text_text, Text_csv) EXCEPT !.filename = "c.csv"],
  Part(Text_multipart, Text_alternative, <<PlainPart, HtmlPart>>),
  [Part(Text_message, Text_rfc822, <<PlainPart>>) EXCEPT
     !.disposition = Text_attachment],
  Part(Text_Multipart, Text_related, <<HtmlPart, ImagePart>>),
  [Part(Text_multipart, Text_mixed, <<PdfPart>>) EXCEPT
     !.disposition = Text_attachment, !.filename = "f.bin"] }

\* The server numbers the parts: the i-th child of the node at path p is at
\* path p.i.
RECURSIVE Numbered(_, _)
Numbered(childNodes, path) ==
  [i \in 1..Len(childNodes) |->
     [childNodes[i] EXCEPT
        !.part = Append(path, i),
        !.childNodes = Numbered(childNodes[i].childNodes, Append(path, i))]]

\* A message of one part, which carries no path, or a multipart/mixed of up
\* to MaxParts parts.
Structures ==
  {p \in Parts : p.childNodes = <<>>}
    \cup {Part(Text_multipart, Text_mixed, Numbered(childNodes, <<>>)) :
            childNodes \in UNION {[1..n -> Parts] : n \in 1..MaxParts}}

\* The two types fetchMessageContent looks for (imap.ts:679-680)
MimeTypes == {Text_textplain, Text_texthtml}

NotSearched == [done |-> FALSE, part |-> Null, attachments |-> <<>>]

InitMime ==
  /\ connectionPool = [k \in {} |-> 0]
  /\ conn = [h \in {} |-> 0]
  /\ created = 0
  /\ req = [r \in Reqs |-> IdleReq]
  /\ now = StartTime
  /\ ticks = 0
  /\ \E structure \in Structures, mimeType \in MimeTypes :
       listIn = [structure |-> structure, mimeType |-> mimeType]
  /\ listOut = NotSearched
  /\ codecIn = <<>> /\ codecOut = <<>>

\* findBodyPart and findAttachments applied to the structure
FindParts ==
  /\ ~listOut.done
  /\ listOut' = [done |-> TRUE,
                 part |-> findBodyPart(listIn.structure, listIn.mimeType),
                 attachments |-> findAttachments(listIn.structure, <<>>)]
  /\ UNCHANGED <<poolVars, listIn, codecVars>>

NextMime == FindParts

SpecMime == InitMime /\ [][NextMime]_vars

\* The nodes of a structure in depth-first pre-order, descending into the
\* children of the multipart nodes only.
RECURSIVE PreOrder(_), PreOrderAll(_)
PreOrder(node) ==
  <<node>> \o (IF \E k \in 1..Len(node.type) :
                     SameIgnoringCase(SubSeq(node.type, 1, k), Text_multipart)
                     /\ (k = Len(node.type) \/ node.type[k + 1] = 47)
               THEN PreOrderAll(node.childNodes) ELSE <<>>)
PreOrderAll(nodes) ==
  IF nodes = <<>> THEN <<>> ELSE PreOrder(Head(nodes)) \o PreOrderAll(Tail(nodes))

\* The type of the node, alone or with its subtype, is the MIME type up to
\* case.
HasType(node, mimeType) ==
  \/ SameIgnoringCase(node.type, mimeType)
  \/ /\ node.subtype # <<>> /\ ~HasSlash(node.type)
     /\ SameIgnoringCase(node.type \o <<47>> \o node.subtype, mimeType)

\* The positions of PreOrder(structure) whose node has the MIME type.
Matching(structure, mimeType) ==
  {i \in 1..Len(PreOrder(structure)) : HasType(PreOrder(structure)[i], mimeType)}

Least(S) == CHOOSE i \in S : \A j \in S : i <= j

\* C32: findBodyPart returns the path of the first node in pre-order whose
\* type is the target, '1' when that node carries no path, and null when no
\* node has the type.
C32_FirstMatch ==
  listOut.done =>
    LET order == PreOrder(listIn.structure)
        found == Matching(listIn.structure, listIn.mimeType)
    IN IF found = {} THEN listOut.part = Null
       ELSE IF order[Least(found)].part = <<>> THEN listOut.part = <<1>>
       ELSE listOut.part = order[Least(found)].part

\* C32 witness: in a multipart/mixed of text/plain, text/html and a PDF the
\* HTML body is found at path 2.
C32_Witness ==
  /\ listOut.done /\ listIn.mimeType = Text_texthtml
  /\ Len(listIn.structure.childNodes) = 3
  /\ listIn.structure.childNodes[1].subtype = Text_plain
  /\ listIn.structure.childNodes[2].subtype = Text_HTML
  /\ listIn.structure.childNodes[3].filename = "a.pdf"
  /\ listOut.part = <<2>>

\* The node is marked as an attachment or as inline or carries a file
\* name, and is no text/plain or text/html body.
Attached(node) ==
  /\ \/ SameIgnoringCase(node.disposition, Text_attachment)
     \/ SameIgnoringCase(node.disposition, Text_inline)
     \/ node.filename # "" \/ node.name # ""
  /\ ~HasType(node, Text_textplain) /\ ~HasType(node, Text_texthtml)

\* C33: findAttachments returns one entry for each attached node of the
\* structure, in pre-order, with the node's path, file name (the declared
\* one, or a generated one), type, size, inline flag and content id.
C33_Attachments ==
  listOut.done =>
    LET wanted == SelectSeq(PreOrder(listIn.structure), Attached)
    IN /\ Len(listOut.attachments) = Len(wanted)
       /\ \A i \in 1..Len(wanted) :
            LET node == wanted[i]
                entry == listOut.attachments[i]
            IN /\ node.part # <<>> => entry.id = node.part
               /\ entry.filename =
                    IF node.filename # "" THEN <<node.filename>>
                    ELSE IF node.name # "" THEN <<node.name>>
                    ELSE <<"attachment-", i>>
               /\ HasType(node, entry.contentType)
               /\ entry.size = node.size
               /\ entry.inline <=> SameIgnoringCase(node.disposition, Text_inline)
               /\ entry.contentId = node.id

\* C33 witness: for a multipart/mixed of text/plain, text/html and a PDF
\* the one entry is the PDF at path 3 with its declared file name and type.
C33_Witness ==
  /\ listOut.done
  /\ Len(listIn.structure.childNodes) = 3
  /\ listIn.structure.childNodes[1] = [PlainPart EXCEPT !.part = <<1>>]
  /\ listIn.structure.childNodes[2] = [HtmlPart EXCEPT !.part = <<2>>]
  /\ listIn.structure.childNodes[3] = [PdfPart EXCEPT !.part = <<3>>]
  /\ Len(listOut.attachments) = 1
  /\ listOut.attachments[1].id = <<3>>
  /\ listOut.attachments[1].filename = <<"a.pdf">>
  /\ listOut.attachments[1].contentType = Text_application \o <<47>> \o Text_pdf

----------------------------------------------------------------------------
(* fetchMessageContent (imap.ts:648-755) and parseEmailSource (864-893).   *)
(* A message of a folder is a fetched message (its envelope and dates)     *)
(* with its uid, its bodyStructure, its source and whether its text parts  *)
(* are blank; the folder lists its messages by sequence number.  A body is *)
(* a sequence of code points, and Undefined where the code has undefined.  *)

Undefined == <<0 - 2>>
NaN == 0 - 1

\* !x for a string or undefined
NoBody(x) == x = Undefined \/ x = <<>>

\* uid.toString()
toString(n) == IF n = NaN THEN <<78, 97, 78>> ELSE Digits(n)

RECURSIVE DecimalValue(_)
DecimalValue(digits) ==
  IF digits = <<>> THEN 0
  ELSE DecimalValue(SubSeq(digits, 1, Len(digits) - 1)) * 10
         + (digits[Len(digits)] - 48)

IsSpace(c) == c \in {9, 10, 11, 12, 13, 32}

\* parseInt(emailId, 10): the digits after the leading white space, up to
\* the first other character; NaN when there is none.
parseInt(s) ==
  LET first == Least({i \in 1..(Len(s) + 1) : i > Len(s) \/ ~IsSpace(s[i])})
      last == Least({i \in first..(Len(s) + 1) : i > Len(s) \/ ~IsDigit(s[i])})
  IN IF last = first THEN NaN ELSE DecimalValue(SubSeq(s, first, last - 1))

\* String.prototype.trim
trim(s) ==
  LET kept == {i \in 1..Len(s) : ~IsSpace(s[i])}
  IN IF kept = {} THEN <<>>
     ELSE SubSeq(s, Least(kept), CHOOSE i \in kept : \A j \in kept : j <= i)

\* the text s stands in content at position k
StartsAt(content, k, s) ==
  /\ k + Len(s) - 1 <= Len(content)
  /\ SubSeq(content, k, k + Len(s) - 1) = s

\* (?=\n--|\n\r\n--|\r\n--|\Z) under the flag i: \Z is the letter Z
Terminator(content, k) ==
  \/ StartsAt(content, k, <<10, 45, 45>>)
  \/ StartsAt(content, k, <<10, 13, 10, 45, 45>>)
  \/ StartsAt(content, k, <<13, 10, 45, 45>>)
  \/ k <= Len(content) /\ content[k] \in {90, 122}

\* content.match(/<header>[\s\S]*?\n\n([\s\S]*?)(?=...)/i)[1]: the group of
\* the leftmost match and its shortest expansions, Undefined without a match
MimeGroup(content, header) ==
  LET n == Len(content)
      Ends(j) == {k \in (j + 2)..n : Terminator(content, k)}
      Blanks(i) == {j \in (i + Len(header))..n :
                      StartsAt(content, j, <<10, 10>>) /\ Ends(j) # {}}
      starts == {i \in 1..n :
                   /\ i + Len(header) - 1 <= n
                   /\ SameIgnoringCase(SubSeq(content, i, i + Len(header) - 1),
                                       header)
                   /\ Blanks(i) # {}}
  IN IF starts = {} THEN Undefined
     ELSE LET j == Least(Blanks(Least(starts)))
          IN SubSeq(content, j + 2, Least(Ends(j)) - 1)

\* content.match(/\n\n([\s\S]+)$/)[1]
BodyGroup(content) ==
  LET blanks == {j \in 1..(Len(content) - 2) : StartsAt(content, j, <<10, 10>>)}
  IN IF blanks = {} THEN Undefined
     ELSE SubSeq(content, Least(blanks) + 2, Len(content))

parseEmailSource(content) ==
  LET textMatch == MimeGroup(content, <<67, 111, 110, 116, 101, 110, 116, 45, 84, 121, 112, 101, 58, 32, 116, 101, 120, 116, 47, 112, 108, 97, 105, 110>>)
      htmlMatch == MimeGroup(content, <<67, 111, 110, 116, 101, 110, 116, 45, 84, 121, 112, 101, 58, 32, 116, 101, 120, 116, 47, 104, 116, 109, 108>>)
      text == IF NoBody(textMatch) THEN Undefined ELSE trim(textMatch)
      html == IF NoBody(htmlMatch) THEN Undefined ELSE trim(htmlMatch)
      bodyMatch == BodyGroup(content)
  IN IF NoBody(text) /\ NoBody(html) /\ ~NoBody(bodyMatch)
     THEN [text |-> trim(bodyMatch), html |-> html]
     ELSE [text |-> text, html |-> html]

\* (a fetch that takes its first argument for a sequence number)
fetchOne_BySequence(folder, uid) ==
  IF uid \in DOMAIN folder THEN {folder[uid]} ELSE {}

\* client.fetchOne(uid, query, {uid: true}) on the selected folder
fetchOne(folder, uid) ==
  {folder[i] : i \in {j \in DOMAIN folder : folder[j].uid = uid}}

\* The bytes of a part of a message, as the server holds them: a text
\* part is empty in a blank message.
PartBody(message, part) ==
  IF message.blank THEN <<>>
  ELSE Digits(message.uid) \o <<46>> \o [i \in DOMAIN part |-> 48 + part[i]]

\* client.download(uid, part, {uid: true}) and the reading of its stream:
\* the call throws, resolves without content, or yields the bytes of the
\* part.  thrown is whether it threw, content the string the code assigns
\* (Undefined when it assigns none).
Outcomes == {"throws", "none", "content"}
download(folder, uid, part, outcome) ==
  IF part = Null THEN [called |-> FALSE, thrown |-> FALSE, content |-> Undefined]
  ELSE [called |-> TRUE, thrown |-> (outcome = "throws"),
        content |-> IF outcome = "content"
                    THEN PartBody(CHOOSE m \in fetchOne(folder, uid) : TRUE, part)
                    ELSE Undefined]

\* fetchMessageContent from the fetchOne on: the reply, or thrown
fetchMessageContent(folder, emailId, textOutcome, htmlOutcome) ==
  LET uid == parseInt(emailId)
      found == fetchOne(folder, uid)
  IN IF found = {}
     THEN [thrown |-> TRUE]
     ELSE
       LET message == CHOOSE m \in found : TRUE
           textPart == findBodyPart(message.bodyStructure, Text_textplain)
           htmlPart == findBodyPart(message.bodyStructure, Text_texthtml)
           text == download(folder, uid, textPart, textOutcome)
           html == download(folder, uid, htmlPart, htmlOutcome)
           fallback == /\ NoBody(text.content) /\ NoBody(html.content)
                       /\ message.source # Undefined
           parsed == parseEmailSource(message.source)
           attachments == findAttachments(message.bodyStructure, <<>>)
       IN [thrown |-> FALSE,
           id |-> toString(uid),
           to |-> message.to,
           receivedAt |-> message.internalDate,
           textContent |-> IF fallback THEN parsed.text ELSE text.content,
           htmlContent |-> IF fallback THEN parsed.html ELSE html.content,
           attachments |-> IF attachments = <<>> THEN Undefined ELSE attachments,
           parsed |-> fallback,
           text |-> text, html |-> html]

----------------------------------------------------------------------------
(* SpecContent: a folder is listed, may lose a message, and one of the     *)
(* listed ids is given to fetchMessageContent.                             *)

\* The uids of a folder grow with the sequence numbers and need not be
\* them.
Uids == {1, 2, 12}
UidLists ==
  {uids \in UNION {[1..n -> Uids] : n \in 1..MaxFetched} :
     \A i \in 1..(Len(uids) - 1) : uids[i] < uids[i + 1]}

ContentStructures == {
  PlainPart,
  PdfPart,
  Part(Text_multipart, Text_mixed, Numbered(<<PlainPart, HtmlPart>>, <<>>)),
  Part(Text_multipart, Text_mixed, Numbered(<<HtmlPart, PdfPart>>, <<>>)) }

\* The source of a message as the server holds it: the header of the
\* content type and a blank line, then the bytes of the part or, between
\* boundary lines, its parts.  Lines end in CRLF, or in a bare LF in a
\* mailbox that was filled from a Unix store.
TypeHeader(node) == <<67, 111, 110, 116, 101, 110, 116, 45, 84, 121, 112, 101, 58, 32>> \o node.type \o <<47>> \o node.subtype
Bytes(message, node) ==
  IF SameIgnoringCase(node.type, Text_text)
  THEN PartBody(message, PartOr1(node))
  ELSE <<74, 86, 66, 69>>
RECURSIVE RenderParts(_, _, _)
RenderParts(message, nodes, nl) ==
  IF nodes = <<>> THEN <<45, 45, 98, 45, 45>>
  ELSE <<45, 45, 98>> \o nl \o TypeHeader(Head(nodes)) \o nl \o nl
         \o Bytes(message, Head(nodes)) \o nl
         \o RenderParts(message, Tail(nodes), nl)
Render(message, nl) ==
  LET node == message.bodyStructure
  IN TypeHeader(node) \o nl \o nl
       \o IF node.childNodes = <<>> THEN Bytes(message, node)
          ELSE RenderParts(message, node.childNodes, nl)

\* what fetchOne returns as message.source
SourceKinds == {"none", "LF", "CRLF"}

\* The message with the uid: to the listed address, received uid
\* milliseconds before the listing.
Stored(uid, structure, blank, kind) ==
  LET message == [uid |-> uid, to |-> <<Addr_a>>, cc |-> <<>>, bcc |-> <<>>,
                  hasDate |-> TRUE, internalDate |-> ListNow - uid,
                  bodyStructure |-> structure, blank |-> blank]
  IN [uid |-> uid, to |-> <<Addr_a>>, cc |-> <<>>, bcc |-> <<>>,
      hasDate |-> TRUE, internalDate |-> ListNow - uid,
      bodyStructure |-> structure, blank |-> blank,
      source |-> IF kind = "none" THEN Undefined
                 ELSE Render(message, IF kind = "LF" THEN <<10>> ELSE <<13, 10>>)]

NoContent == [listed |-> FALSE, ids |-> <<>>, messages |-> <<>>,
              expunged |-> FALSE, done |-> FALSE, emailId |-> <<>>,
              content |-> [thrown |-> FALSE]]

InitContent ==
  /\ connectionPool = [k \in {} |-> 0]
  /\ conn = [h \in {} |-> 0]
  /\ created = 0
  /\ req = [r \in Reqs |-> IdleReq]
  /\ now = ListNow
  /\ ticks = 0
  /\ \E uids \in UidLists, structure \in ContentStructures, blank \in BOOLEAN,
        kind \in SourceKinds, textOutcome \in Outcomes, htmlOutcome \in Outcomes :
       listIn = [folder |-> [i \in 1..Len(uids) |->
                               Stored(uids[i], structure, blank, kind)],
                 textOutcome |-> textOutcome, htmlOutcome |-> htmlOutcome]
  /\ listOut = NoContent
  /\ codecIn = <<>> /\ codecOut = <<>>

\* getEmails: the search and the fetch by sequence number, the ids are
\* msg.uid.toString()
ListIds ==
  LET messages == fetchRecentMessages(listIn.folder, Addr_a, now)
  IN /\ ~listOut.listed
     /\ listOut' = [listOut EXCEPT
                      !.listed = TRUE,
                      !.messages = messages,
                      !.ids = [i \in 1..Len(messages) |-> toString(messages[i].id)]]
     /\ UNCHANGED <<poolVars, listIn, codecVars>>

\* Another client of the mailbox deletes a message: the messages after it
\* move up by one sequence number.
Expunge(i) ==
  /\ listOut.listed /\ ~listOut.expunged /\ ~listOut.done
  /\ i \in DOMAIN listIn.folder
  /\ listIn' = [listIn EXCEPT
                  !.folder = SubSeq(listIn.folder, 1, i - 1)
                               \o SubSeq(listIn.folder, i + 1, Len(listIn.folder))]
  /\ listOut' = [listOut EXCEPT !.expunged = TRUE]
  /\ UNCHANGED <<poolVars, codecVars>>

\* getEmailContent with a listed id
GetContent(i) ==
  /\ listOut.listed /\ ~listOut.done
  /\ i \in DOMAIN listOut.ids
  /\ listOut' = [listOut EXCEPT
                   !.done = TRUE,
                   !.emailId = listOut.ids[i],
                   !.content = fetchMessageContent(listIn.folder, listOut.ids[i],
                                 listIn.textOutcome, listIn.htmlOutcome)]
  /\ UNCHANGED <<poolVars, listIn, codecVars>>

NextContent ==
  \/ ListIds
  \/ \E i \in 1..MaxFetched : Expunge(i)
  \/ \E i \in 1..MaxFetched : GetContent(i)

SpecContent == InitContent /\ [][NextContent]_vars

----------------------------------------------------------------------------
(* Properties of fetchMessageContent                                       *)

\* C34: when the message exists getEmailContent does not fail whatever the
\* downloads do, and when the download of one body part throws, the other
\* part is still downloaded and what its download yielded is the body
\* returned.
C34_DownloadsIndependent ==
  listOut.done /\ fetchOne(listIn.folder, parseInt(listOut.emailId)) # {} =>
    LET c == listOut.content
    IN /\ ~c.thrown
       /\ \A one \in {[failed |-> c.text, other |-> c.html,
                       returned |-> c.htmlContent],
                      [failed |-> c.html, other |-> c.text,
                       returned |-> c.textContent]} :
            one.failed.thrown /\ one.other.called /\ ~one.other.thrown
              => one.returned = one.other.content

\* C35: parseEmailSource is applied exactly when neither download yielded
\* a body and the message has a source, and when a download yielded a body
\* the bodies returned are what the downloads yielded.
C35_FallbackOnlyWithoutBodies ==
  listOut.done /\ ~listOut.content.thrown =>
    LET c == listOut.content
        message == CHOOSE m \in fetchOne(listIn.folder, parseInt(listOut.emailId)) :
                     TRUE
        obtained == c.text.content # Undefined \/ c.html.content # Undefined
    IN /\ c.parsed <=> (~obtained /\ message.source # Undefined)
       /\ obtained => /\ c.textContent = c.text.content
                      /\ c.htmlContent = c.html.content

\* The messages of the folder that are the listed message with the id.
Still(emailId) ==
  {m \in {listIn.folder[i] : i \in DOMAIN listIn.folder} :
     \E i \in DOMAIN listOut.ids :
       /\ listOut.ids[i] = emailId
       /\ listOut.messages[i].receivedAt = m.internalDate
       /\ listOut.messages[i].to = m.to}

\* C36: every listed id is the uid of the message it was listed for, and
\* getEmailContent with a listed id returns that message under the same id
\* while the folder still holds it, and fails once it does not.
C36_IdsAreUids ==
  /\ listOut.listed /\ ~listOut.expunged =>
       \A i \in DOMAIN listOut.ids :
         \E m \in Still(listOut.ids[i]) : listOut.ids[i] = toString(m.uid)
  /\ listOut.done =>
       LET c == listOut.content
       IN IF Still(listOut.emailId) = {} THEN c.thrown
          ELSE /\ ~c.thrown
               /\ c.id = listOut.emailId
               /\ \E m \in Still(listOut.emailId) :
                    c.receivedAt = m.internalDate /\ c.to = m.to

\* C36 witness: the folder held the uids 1 and 12, the first message was
\* deleted after the listing, and the id "12" still returns the message
\* with the uid 12, now at sequence number 1.
C36_Witness ==
  /\ listOut.done /\ listOut.expunged
  /\ Len(listIn.folder) = 1 /\ listIn.folder[1].uid = 12
  /\ Len(listOut.ids) = 2
  /\ listOut.emailId = <<49, 50>>
  /\ ~listOut.content.thrown
  /\ listOut.content.id = <<49, 50>>
  /\ listOut.content.receivedAt = listIn.folder[1].internalDate

----------------------------------------------------------------------------
(* The counters of the provider (imap.ts:51-60, 89, 127, 147, 159, 184,    *)
(* 217, 231, 249, 280).  SpecStats: the calls of the three operations      *)
(* interleave at their awaits; a call is [op, at], at the number of the    *)
(* await it is suspended at and 0 when it is not in flight.                *)

MaxStarted == 3   \* calls started in one behaviour

Operations == {"createEmail", "getEmails", "getEmailContent"}

\* the awaits of the body of each operation, in order
Awaits(op) ==
  IF op = "createEmail" THEN <<"testImapConnection", "generateAccessToken">>
  ELSE IF op = "getEmails"
       THEN <<"parseAccessToken", "getConnection", "mailboxOpen",
              "fetchRecentMessages">>
       ELSE <<"parseAccessToken", "getConnection", "mailboxOpen",
              "fetchMessageContent">>

NoCall == [op |-> "", at |-> 0]
NewStats == [totalRequests |-> 0, successfulRequests |-> 0, failedRequests |-> 0]

\* this.stats.totalRequests++
Started(stats) == [stats EXCEPT !.totalRequests = @ + 1]

\* this.stats.successfulRequests++; updateResponseTime changes no counter
Succeeded(stats) == [stats EXCEPT !.successfulRequests = @ + 1]

\* (a catch that returns the failure without counting it)
Caught_Uncounted(stats) == stats

\* catch (error) { this.stats.failedRequests++ ... }
Caught(stats) == [stats EXCEPT !.failedRequests = @ + 1]

InitStats ==
  /\ connectionPool = [k \in {} |-> 0]
  /\ conn = [h \in {} |-> 0]
  /\ created = 0
  /\ req = [r \in Reqs |-> IdleReq]
  /\ now = StartTime
  /\ ticks = 0
  /\ listIn = [r \in Reqs |-> NoCall]
  /\ listOut = NewStats
  /\ codecIn = <<>> /\ codecOut = <<>>

\* The call up to its first await: the request is counted, and a missing
\* imap field or token or an invalid config throws into the catch before
\* anything is awaited.
CallStart(r, op, throws) ==
  /\ listIn[r].at = 0
  /\ listOut.totalRequests < MaxStarted
  /\ IF throws
     THEN /\ listOut' = Caught(Started(listOut))
          /\ listIn' = listIn
     ELSE /\ listOut' = Started(listOut)
          /\ listIn' = [listIn EXCEPT ![r] = [op |-> op, at |-> 1]]
  /\ UNCHANGED <<poolVars, codecVars>>

\* The awaited promise resolves: the call runs to its next await, or past
\* the last one to the return (the finally block of releaseConnection does
\* not throw).
Resumed(r) ==
  /\ listIn[r].at > 0
  /\ IF listIn[r].at < Len(Awaits(listIn[r].op))
     THEN /\ listIn' = [listIn EXCEPT ![r].at = @ + 1]
          /\ listOut' = listOut
     ELSE /\ listIn' = [listIn EXCEPT ![r] = NoCall]
          /\ listOut' = Succeeded(listOut)
  /\ UNCHANGED <<poolVars, codecVars>>

\* The awaited promise rejects: the inner catch rethrows, the outer catch
\* counts the failure and returns handleError's envelope.
Failed(r) ==
  /\ listIn[r].at > 0
  /\ listIn' = [listIn EXCEPT ![r] = NoCall]
  /\ listOut' = Caught(listOut)
  /\ UNCHANGED <<poolVars, codecVars>>

NextStats ==
  \/ \E r \in Reqs, op \in Operations, throws \in BOOLEAN : CallStart(r, op, throws)
  \/ \E r \in Reqs : Resumed(r)
  \/ \E r \in Reqs : Failed(r)

SpecStats == InitStats /\ [][NextStats]_vars

\* the calls that have started and not yet returned
InFlight == {r \in Reqs : listIn[r].at > 0}

\* C37: totalRequests is successfulRequests plus failedRequests plus the
\* number of calls in flight, in every state of every interleaving.
C37_CountersBalance ==
  listOut.totalRequests =
    listOut.successfulRequests + listOut.failedRequests + Cardinality(InFlight)

\* C37 witness: of three calls one has succeeded, one has failed and a
\* getEmailContent is suspended at its fetch.
C37_Witness ==
  /\ listOut = [totalRequests |-> 3, successfulRequests |-> 1,
                failedRequests |-> 1]
  /\ \E r \in Reqs : listIn[r] = [op |-> "getEmailContent", at |-> 4]

----------------------------------------------------------------------------
(* Properties of the failure envelope                                      *)

\* C38: every failure envelope names the operation that failed and has the
\* details of handleError (the reason and the operation, which are the
\* context of its error), whatever the type of the error.
C38_FailureHasContext ==
  \A r \in Reqs :
    req[r].pc = "done" /\ ~req[r].out.success =>
      /\ req[r].out.operation \in Operations
      /\ req[r].out.type \in Taxonomy
      /\ req[r].out.details

----------------------------------------------------------------------------
(* Properties of a mailbox of the caller's own (isMine), under SpecMine    *)

\* The messages of a folder received in the 24 hours before t.
Recent(path, t) ==
  {m \in {Folder(path)[i] : i \in DOMAIN Folder(path)} :
     ReceivedAt(m, t) >= t - DAY_MS}

\* C39: createEmail with isMine returns imap_user as the address, with its
\* two parts as username and domain, and getEmails with the token of such
\* a call returns every message of the configured folder that was received
\* in the last 24 hours.
C39_OwnMailboxListsAll ==
  req[1].pc = "done" /\ req[1].out.success =>
    /\ req[1].out.operation = "createEmail" =>
         LET issued == codecOut.issued[Len(codecOut.issued)]
             data == req[1].out.data[1]
         IN /\ data.address = Codes(Configs[issued.cfg].imap_user)
            /\ data.address = data.username \o <<64>> \o data.domain
    /\ req[1].out.operation = "getEmails" =>
         {m.uid : m \in Recent(MailboxPath(Configs[codecOut.last.cfg]), now)}
           = {req[1].out.data[i].id : i \in DOMAIN req[1].out.data}

====
